---- MODULE Spec2Model ----
(***************************************************************************)
(* A model of ethers-flashbots: the inclusion poller (PendingBundle), the  *)
(* relay client (Relay) and the two submission middlewares                 *)
(* (FlashbotsMiddleware, BroadcasterMiddleware).                           *)
(***************************************************************************)
EXTENDS Integers, Sequences, FiniteSets, TLC

(***************************************************************************)
(* Bounds of the model.                                                    *)
(***************************************************************************)
NumHashes == 2          \* distinct transaction hashes
MaxTxs == 2             \* longest list of hashes a PendingBundle tracks
MaxBlockTxs == 2        \* longest transaction list of a fetched block
NumBundleHashes == 1    \* distinct bundle hashes a relay can acknowledge
MaxBlock == 1           \* largest target block number
MaxRetries == 2         \* the retry counter saturates here
MaxRelays == 2          \* most relays a BroadcasterMiddleware is built with
NumRawTxs == 1          \* distinct raw transactions a bundle can hold
NumSignedTxs == 1       \* distinct already-signed transactions a bundle can hold
MaxPushes == 2          \* transactions pushed onto one BundleRequest
MaxValue == 40          \* largest number given to the decoders, in any encoding
MaxCoinbaseDiff == 7    \* largest coinbaseDiff of a simulation result
MaxGasUsed == 3         \* largest gasUsed of a simulation result
MaxBundleTxs == 1       \* longest transaction list of a bundle
MaxCalls == 2           \* calls made on a FlashbotsMiddleware in one run
MaxBroadcasts == 1      \* calls made on a BroadcasterMiddleware in one run
MaxRawSends == 1        \* calls of send_raw_transaction made in one run
MaxMiddlewareCalls == 1 \* calls made on the two middlewares together in one run
MaxQueries == 2         \* simulation and statistics calls made in one run
MaxClients == 2         \* Relay values alive: the first and its clones
MaxRequests == 2        \* calls of Relay::request made directly in one run

(***************************************************************************)
(* Option<T>: None is the empty tuple, Some(x) the one-element tuple.      *)
(***************************************************************************)
None == << >>
Some(x) == << x >>
IsSome(o) == o # None
IsNone(o) == o = None
Unwrap(o) == o[1]
Option(S) == {None} \cup {Some(x) : x \in S}

SeqsUpTo(S, n) == UNION {[1..k -> S] : k \in 0..n}

TxHashes == 1..NumHashes
BundleHashes == 1..NumBundleHashes
BlockNumbers == 1..MaxBlock

Min(a, b) == IF a <= b THEN a ELSE b

VARIABLES
    \* ---- PendingBundle (pending_bundle.rs) ----
    bundle_hash,      \* Option<BundleHash>, fixed at construction
    block,            \* U64, the target block, fixed at construction
    transactions,     \* Vec<TxHash>, the tracked hashes
    state,            \* PendingBundleState
    fut,              \* the get_block future held by GettingBlock
    interval,         \* TRUE when the interval stream has a tick to yield
    interval_waker,   \* TRUE when the interval holds the task's waker
    fut_waker,        \* TRUE when the get_block future holds the task's waker
    woken,            \* TRUE when the task has been woken and not polled since
    ret,              \* what the last call of poll returned
    readyCount,       \* history: number of Ready results returned (saturates at 2)
    retries,          \* history: retry outcomes consumed so far (saturates at MaxRetries)
    fetched           \* history: the get_block result poll consumed last (forgotten
                      \* when the next fetch is issued)

pollerVars == << bundle_hash, block, transactions, state, fut, interval,
                 interval_waker, fut_waker, woken, ret, readyCount, retries,
                 fetched >>

VARIABLES
    \* ---- FlashbotsMiddleware / BroadcasterMiddleware (middleware.rs) ----
    relay,            \* FlashbotsMiddleware.relay
    simulation_relay, \* FlashbotsMiddleware.simulation_relay, an Option<Relay>
    relays,           \* BroadcasterMiddleware.relays, a Vec<Relay>
    bc_simulation_relay, \* BroadcasterMiddleware.simulation_relay
    call,             \* the middleware call being made, or made last
    reqs,             \* the Relay::request futures of the call, one per relay
    result,           \* what the call returned
    calls             \* history: number of calls made

mwVars ==
    << relay, simulation_relay, relays, bc_simulation_relay, call, reqs, result,
       calls >>

VARIABLES
    \* ---- Relay clients used directly (relay.rs) ----
    clients,          \* the Relay values alive: the first and its clones
    requests          \* the calls of Relay::request made on them, in call order

VARIABLES
    origin            \* history: the client each client was cloned from (0: none)

relayVars == << clients, requests, origin >>

VARIABLES
    \* ---- A BundleRequest under construction (bundle.rs) ----
    request,          \* the BundleRequest the builder calls have produced so far
    wire,             \* the JSON object the request serialized to, if it was serialized
    pushes            \* history: the transactions pushed, in call order, each with
                      \* whether it was pushed as revertible

VARIABLES
    \* ---- A field of a simulation result being decoded (utils.rs) ----
    value,            \* the serde_json::Value the field holds
    decoded           \* what the three decoders returned for it, if they ran

VARIABLES
    \* ---- A simulation result and its effective gas price (bundle.rs) ----
    simulated,        \* the SimulatedTransaction or SimulatedBundle deserialized, if any
    price             \* what effective_gas_price did when called on it, if it was called

simVars == << simulated, price >>

dataVars == << request, wire, pushes, value, decoded, simVars >>

vars == << pollerVars, mwVars, relayVars, dataVars >>

(***************************************************************************)
(* Result<Option<Block<TxHash>>, ProviderError>, the output of get_block.  *)
(***************************************************************************)
ProviderErr == [kind |-> "Err", number |-> None, transactions |-> << >>]
NoBlock == [kind |-> "None", number |-> None, transactions |-> << >>]
BlockOf(n, txs) == [kind |-> "Block", number |-> n, transactions |-> txs]

\* The answers a provider can give to get_block(n).
BlockResults(n) ==
    {ProviderErr, NoBlock}
    \cup {BlockOf(num, txs) : num \in {None, Some(n)},
                              txs \in SeqsUpTo(TxHashes, MaxBlockTxs)}

NoFut == [st |-> "none", num |-> 0, res |-> NoBlock]

\* No result consumed (yet, or since the fetch now in flight was issued).
NoFetch == [kind |-> "-", number |-> None, transactions |-> << >>]

(***************************************************************************)
(* Poll<Result<Option<BundleHash>, PendingBundleError>>                    *)
(***************************************************************************)
NotPolled == [tag |-> "NotPolled", res |-> "-", val |-> None]
Pending == [tag |-> "Pending", res |-> "-", val |-> None]
ReadyOk(h) == [tag |-> "Ready", res |-> "Ok", val |-> h]
ReadyErr(e) == [tag |-> "Ready", res |-> e, val |-> None]
Panic == [tag |-> "Panic", res |-> "-", val |-> None]

\* Vec::contains
contains(s, x) == \E i \in DOMAIN s : s[i] = x

\* A faulty included: any() instead of all().
included_any(txs, blockTxs) == \E i \in DOMAIN txs : contains(blockTxs, txs[i])

\* A faulty included: a tracker of no hash is never included.
included_RequiresSome(txs, blockTxs) ==
    txs # << >> /\ \A i \in DOMAIN txs : contains(blockTxs, txs[i])

\* pending_bundle.rs 103-106: every tracked hash is in the block's list.
included(txs, blockTxs) == \A i \in DOMAIN txs : contains(blockTxs, txs[i])

(***************************************************************************)
(* BundleRequest (bundle.rs)                                               *)
(***************************************************************************)
RawTxs == 1..NumRawTxs
SignedTxs == 1..NumSignedTxs
Timestamps == {1000}
Basefees == {333333}

\* BundleTransaction::Signed and BundleTransaction::Raw
Signed(inner) == [variant |-> "Signed", inner |-> inner]
Raw(bytes) == [variant |-> "Raw", bytes |-> bytes]

\* The transactions send_bundle and simulate_bundle are called with.
BundleTransactions == {Raw(b) : b \in RawTxs}

\* Every transaction a caller can push.
AnyBundleTransactions == BundleTransactions \cup {Signed(t) : t \in SignedTxs}

\* The content hash of an encoding.
keccak256(bytes) == 100 + bytes

\* Transaction::rlp: the encoding of a signed transaction.  The second signed
\* transaction encodes to the bytes of no raw transaction, the first to the
\* bytes of the second raw transaction when there is one.
rlp(inner) == 2 * inner

\* Transaction::hash, the method push_revertible_transaction calls on a signed
\* transaction: the hash of its encoding.
Transaction_hash(inner) == keccak256(rlp(inner))

\* The bundles a caller can build with the setters of BundleRequest, the
\* timestamps and the simulation parameters drawn from the given sets.
BundlesWith(timestamps, simBlocks, simTimestamps) ==
    [transactions : SeqsUpTo(BundleTransactions, MaxBundleTxs),
     revertible_transaction_hashes : {<< >>},
     target_block : Option(BlockNumbers),
     min_timestamp : timestamps,
     max_timestamp : timestamps,
     simulation_block : simBlocks,
     simulation_timestamp : simTimestamps,
     simulation_basefee : {None}]

\* The bundles given to send_bundle, which reads no simulation parameter.
Bundles == BundlesWith(Option(Timestamps), {None}, {None})

\* The bundles given to simulate_bundle, which reads neither timestamp.
SimBundles == BundlesWith({None}, Option(BlockNumbers), Option(Timestamps))

\* BundleRequest::transaction_hashes
transaction_hashes_Reversed(bundle) ==
    [i \in DOMAIN bundle.transactions |->
        LET tx == bundle.transactions[Len(bundle.transactions) + 1 - i]
        IN  IF tx.variant = "Signed" THEN keccak256(rlp(tx.inner))
            ELSE keccak256(tx.bytes)]

transaction_hashes(bundle) ==
    [i \in DOMAIN bundle.transactions |->
        LET tx == bundle.transactions[i]
        IN  IF tx.variant = "Signed" THEN keccak256(rlp(tx.inner))
            ELSE keccak256(tx.bytes)]

\* BundleRequest::new
BundleRequest_new ==
    [transactions |-> << >>, revertible_transaction_hashes |-> << >>,
     target_block |-> None, min_timestamp |-> None, max_timestamp |-> None,
     simulation_block |-> None, simulation_timestamp |-> None,
     simulation_basefee |-> None]

\* BundleRequest::push_transaction
push_transaction(bundle, tx) ==
    [bundle EXCEPT !.transactions = Append(@, tx)]

\* BundleRequest::push_revertible_transaction
push_revertible_transaction_NoRlp(bundle, tx) ==
    LET tx_hash == IF tx.variant = "Signed" THEN keccak256(tx.inner)
                   ELSE keccak256(tx.bytes)
    IN  [bundle EXCEPT !.transactions = Append(@, tx),
                       !.revertible_transaction_hashes = Append(@, tx_hash)]

push_revertible_transaction_Prepend(bundle, tx) ==
    LET tx_hash == IF tx.variant = "Signed" THEN Transaction_hash(tx.inner)
                   ELSE keccak256(tx.bytes)
    IN  [bundle EXCEPT !.transactions = Append(@, tx),
                       !.revertible_transaction_hashes = << tx_hash >> \o @]

push_revertible_transaction(bundle, tx) ==
    LET tx_hash == IF tx.variant = "Signed" THEN Transaction_hash(tx.inner)
                   ELSE keccak256(tx.bytes)
    IN  [bundle EXCEPT !.transactions = Append(@, tx),
                       !.revertible_transaction_hashes = Append(@, tx_hash)]

\* The setters of BundleRequest
set_block(bundle, blk) == [bundle EXCEPT !.target_block = Some(blk)]
set_simulation_block(bundle, blk) == [bundle EXCEPT !.simulation_block = Some(blk)]
set_simulation_timestamp(bundle, timestamp) ==
    [bundle EXCEPT !.simulation_timestamp = Some(timestamp)]
set_simulation_basefee(bundle, basefee) ==
    [bundle EXCEPT !.simulation_basefee = Some(basefee)]
set_min_timestamp(bundle, timestamp) == [bundle EXCEPT !.min_timestamp = Some(timestamp)]
set_max_timestamp(bundle, timestamp) == [bundle EXCEPT !.max_timestamp = Some(timestamp)]

(***************************************************************************)
(* The decoders of simulation results (utils.rs)                           *)
(***************************************************************************)
\* serde_json::Value.  A string is the sequence of its characters.
JsonNull == [type |-> "Null", n |-> 0, s |-> << >>]
JsonBool == [type |-> "Bool", n |-> 0, s |-> << >>]
JsonArray == [type |-> "Array", n |-> 0, s |-> << >>]
JsonObject == [type |-> "Object", n |-> 0, s |-> << >>]
JsonFloat == [type |-> "Float", n |-> 0, s |-> << >>]
JsonNumber(n) == [type |-> "Number", n |-> n, s |-> << >>]
JsonString(s) == [type |-> "String", n |-> 0, s |-> s]

HexDigits ==
    << "0", "1", "2", "3", "4", "5", "6", "7", "8", "9", "a", "b", "c", "d", "e", "f" >>

\* The digits of v in the given radix, most significant first.
RECURSIVE Digits(_, _)
Digits(v, radix) ==
    IF v < radix THEN << HexDigits[v + 1] >>
    ELSE Append(Digits(v \div radix, radix), HexDigits[(v % radix) + 1])

\* The three encodings a relay gives a number.
DecString(v) == Digits(v, 10)
HexString(v) == << "0", "x" >> \o Digits(v, 16)

\* Result<T, D::Error>
DecodeOk(v) == [ok |-> TRUE, v |-> v, err |-> "-"]
DecodeErr(e) == [ok |-> FALSE, v |-> 0, err |-> e]

IsDigit(c, radix) == \E d \in 1..radix : HexDigits[d] = c
DigitValue(c) == (CHOOSE d \in 1..Len(HexDigits) : HexDigits[d] = c) - 1

\* The number a string of digits of the given radix stands for.
RECURSIVE Number(_, _)
Number(s, radix) ==
    IF s = << >> THEN 0
    ELSE Number(SubSeq(s, 1, Len(s) - 1), radix) * radix + DigitValue(s[Len(s)])

\* str::starts_with("0x") and str::strip_prefix("0x").unwrap_or
starts_with_0x(s) == Len(s) >= 2 /\ s[1] = "0" /\ s[2] = "x"
strip_prefix_0x(s) == IF starts_with_0x(s) THEN SubSeq(s, 3, Len(s)) ELSE s

\* from_dec_str of U64 and U256: every character a decimal digit (the strings
\* decoded here are too short to overflow either type).
from_dec_str(s) ==
    IF \A i \in DOMAIN s : IsDigit(s[i], 10) THEN DecodeOk(Number(s, 10))
    ELSE DecodeErr("InvalidCharacter")

\* from_str_radix(s, 16) of U64 and U256: FromStr, which strips the prefix
\* "0x" and reads at most two hex digits for each byte of the type.
from_str_radix_16(s, bytes) ==
    IF Len(strip_prefix_0x(s)) > 2 * bytes THEN DecodeErr("InvalidLength")
    ELSE IF \A i \in DOMAIN strip_prefix_0x(s) : IsDigit(strip_prefix_0x(s)[i], 16)
    THEN DecodeOk(Number(strip_prefix_0x(s), 16))
    ELSE DecodeErr("InvalidCharacter")

\* Number::as_u64
as_u64(val) == IF val.type = "Number" /\ val.n >= 0 THEN Some(val.n) ELSE None

\* deserialize_u64
deserialize_u64_NoHex(val) ==
    IF val.type = "String"
    THEN IF val.s = << "0", "x" >> THEN DecodeOk(0)
         ELSE from_dec_str(val.s)
    ELSE IF val.type \in {"Number", "Float"}
    THEN IF IsSome(as_u64(val)) THEN DecodeOk(Unwrap(as_u64(val)))
         ELSE DecodeErr("Invalid number")
    ELSE DecodeErr("wrong type")

deserialize_u64(val) ==
    IF val.type = "String"
    THEN IF val.s = << "0", "x" >> THEN DecodeOk(0)
         ELSE IF starts_with_0x(val.s) THEN from_str_radix_16(val.s, 8)
         ELSE from_dec_str(val.s)
    ELSE IF val.type \in {"Number", "Float"}
    THEN IF IsSome(as_u64(val)) THEN DecodeOk(Unwrap(as_u64(val)))
         ELSE DecodeErr("Invalid number")
    ELSE DecodeErr("wrong type")

\* deserialize_u256
deserialize_u256(val) ==
    IF val.type = "String"
    THEN IF val.s = << "0", "x" >> THEN DecodeOk(0)
         ELSE IF starts_with_0x(val.s) THEN from_str_radix_16(val.s, 32)
         ELSE from_dec_str(val.s)
    ELSE IF val.type \in {"Number", "Float"}
    THEN IF IsSome(as_u64(val)) THEN DecodeOk(Unwrap(as_u64(val)))
         ELSE DecodeErr("Invalid number")
    ELSE DecodeErr("wrong type")

\* H160::from_str: forty hex digits after an optional prefix "0x".
H160_from_str(s) ==
    IF Len(strip_prefix_0x(s)) = 40
       /\ \A i \in DOMAIN strip_prefix_0x(s) : IsDigit(strip_prefix_0x(s)[i], 16)
    THEN DecodeOk(strip_prefix_0x(s))
    ELSE DecodeErr("InvalidLength")

\* deserialize_optional_h160
deserialize_optional_h160(val) ==
    IF val.type = "String"
    THEN IF val.s = << "0", "x" >> THEN DecodeOk(None)
         ELSE IF H160_from_str(val.s).ok THEN DecodeOk(Some(H160_from_str(val.s).v))
         ELSE H160_from_str(val.s)
    ELSE DecodeErr("expected a hexadecimal string")

\* An address as a relay writes it, and a string that is no number.
AddressString == << "0", "x" >> \o [i \in 1..39 |-> "0"] \o << "1" >>
GarbageString == << "0", "x", "x" >>

\* The values a field of a simulation result can hold.
JsonValues ==
    {JsonString(DecString(v)) : v \in 0..MaxValue}
    \cup {JsonString(HexString(v)) : v \in 0..MaxValue}
    \cup {JsonNumber(v) : v \in (0 - 1)..MaxValue}
    \cup {JsonString(<< "0", "x" >>), JsonString(AddressString),
          JsonString(GarbageString), JsonNull, JsonBool, JsonArray, JsonObject,
          JsonFloat}

(***************************************************************************)
(* The serialization of BundleRequest (bundle.rs)                          *)
(***************************************************************************)
\* The conditions of skip_serializing_if on the fields of BundleRequest
Vec_is_empty_Never(v) == FALSE
Vec_is_empty(v) == v = << >>

Option_is_none_Never(o) == FALSE
Option_is_none(o) == IsNone(o)

\* What serde_json writes: a byte string and a hash as "0x" followed by two
\* hex digits for each byte (a hash has thirty-two bytes), a U64 as a hex
\* quantity without leading zeros, a u64 as a number, no value as null.
HexByte(b) == << HexDigits[(b \div 16) + 1], HexDigits[(b % 16) + 1] >>
HexBytes(bytes) == JsonString(<< "0", "x" >> \o HexByte(bytes))
HexHash(h) == JsonString(<< "0", "x" >> \o [i \in 1..62 |-> "0"] \o HexByte(h))
Quantity(n) == JsonString(HexString(n))
JsonArrayOf(elems) == [type |-> "Array", n |-> 0, s |-> elems]

\* serialize_txs
serialize_txs(txs) ==
    JsonArrayOf([i \in DOMAIN txs |->
        IF txs[i].variant = "Signed" THEN HexBytes(rlp(txs[i].inner))
        ELSE HexBytes(txs[i].bytes)])

\* One field of a serialized struct: left out when its skip_serializing_if
\* condition holds.
Field(key, skip, v) == IF skip THEN << >> ELSE key :> v

\* Serialize for Option<T>
serialize_quantity(o) == IF IsSome(o) THEN Quantity(Unwrap(o)) ELSE JsonNull
serialize_number(o) == IF IsSome(o) THEN JsonNumber(Unwrap(o)) ELSE JsonNull

\* The derived Serialize of BundleRequest, as a JSON object
to_json(bundle) ==
    ("txs" :> serialize_txs(bundle.transactions))
    @@ Field("revertingTxHashes", Vec_is_empty(bundle.revertible_transaction_hashes),
             JsonArrayOf([i \in DOMAIN bundle.revertible_transaction_hashes |->
                 HexHash(bundle.revertible_transaction_hashes[i])]))
    @@ Field("blockNumber", Option_is_none(bundle.target_block),
             serialize_quantity(bundle.target_block))
    @@ Field("minTimestamp", Option_is_none(bundle.min_timestamp),
             serialize_number(bundle.min_timestamp))
    @@ Field("maxTimestamp", Option_is_none(bundle.max_timestamp),
             serialize_number(bundle.max_timestamp))
    @@ Field("stateBlockNumber", Option_is_none(bundle.simulation_block),
             serialize_quantity(bundle.simulation_block))
    @@ Field("timestamp", Option_is_none(bundle.simulation_timestamp),
             serialize_number(bundle.simulation_timestamp))
    @@ Field("baseFee", Option_is_none(bundle.simulation_basefee),
             serialize_number(bundle.simulation_basefee))

\* Option::and
and(a, b) == IF IsSome(a) THEN b ELSE None

\* Option::xor
xor(a, b) ==
    IF IsSome(a) /\ IsNone(b) THEN a
    ELSE IF IsNone(a) /\ IsSome(b) THEN b
    ELSE None

\* PendingBundle::new, pending_bundle.rs 40-54
PendingBundle_new(hash, blk, txs) ==
    [bundle_hash |-> hash, block |-> blk, transactions |-> txs,
     state |-> "PausedGettingBlock"]

NoPending == [bundle_hash |-> None, block |-> 0, transactions |-> << >>, state |-> "-"]

(***************************************************************************)
(* Relay (relay.rs)                                                        *)
(***************************************************************************)
\* The searcher identity the middlewares are constructed with.
relay_signer == "relay_signer"

\* Relay::new, relay.rs 60-67
Relay_new(url, signer) == [id |-> 0, url |-> url, signer |-> signer]

\* How a request ended: not yet, with the signer's failure, or with an answer.
NoResponse == [status |-> "-", body |-> "-", hash |-> None]
SignerFailure == [status |-> "signer", body |-> "-", hash |-> None]

\* What the network and the relay can answer to one eth_sendBundle request.
Responses ==
    {[status |-> "transport", body |-> "-", hash |-> None],
     [status |-> "4xx", body |-> "text", hash |-> None],
     [status |-> "5xx", body |-> "text", hash |-> None],
     [status |-> "2xx", body |-> "garbage", hash |-> None],
     [status |-> "2xx", body |-> "error", hash |-> None],
     [status |-> "2xx", body |-> "null", hash |-> None],
     [status |-> "2xx", body |-> "result", hash |-> None]}
    \cup {[status |-> "2xx", body |-> "result", hash |-> Some(h)] : h \in BundleHashes}

\* Result<Option<R>, RelayError>; text is the body an error carries.
ReqOk(v) == [ok |-> TRUE, err |-> "-", val |-> v, text |-> "-"]
ReqErr(e) == [ok |-> FALSE, err |-> e, val |-> None, text |-> "-"]
ReqErrText(e, text) == [ok |-> FALSE, err |-> e, val |-> None, text |-> text]

\* ResponseData::into_result: the error object of the envelope, or its result.
into_result(resp) ==
    IF resp.body = "error" THEN ReqErr("JsonRpcError")
    ELSE IF resp.body = "null" THEN ReqOk(None)
    ELSE ReqOk(Some([bundle_hash |-> resp.hash]))

\* A faulty Classify: every error status is reported as a client error.
Classify_AnyStatusClient(resp) ==
    IF resp.status = "transport" THEN ReqErr("RequestError")
    ELSE IF resp.status \in {"4xx", "5xx"} THEN ReqErrText("ClientError", resp.body)
    ELSE IF resp.body = "garbage" THEN ReqErrText("ResponseSerdeJson", resp.body)
    ELSE into_result(resp)

\* relay.rs 102-124: the result of request for an answer.
Classify(resp) ==
    IF resp.status = "transport" THEN ReqErr("RequestError")
    ELSE IF resp.status = "4xx" THEN ReqErrText("ClientError", resp.body)
    ELSE IF resp.status = "5xx" THEN ReqErr("RequestError")
    ELSE IF resp.body = "garbage" THEN ReqErrText("ResponseSerdeJson", resp.body)
    ELSE into_result(resp)

\* A faulty Request_start: the counter is not stored back.
Request_start_NoStore(r) == r

\* relay.rs 76-79: the counter is advanced and the request built.
Request_start(r) == [r EXCEPT !.id = r.id + 1]

\* A request future: signing (relay.rs 83-94) when the relay has a signer,
\* sent (relay.rs 102), done. method and params are the arguments of request
\* (a bundle or nothing: the parameters of the statistics calls are left out).
\* resp is history: how the request ended.
ReqFuture(r, method, params) ==
    [pc |-> IF IsSome(r.signer) THEN "signing" ELSE "sent", id |-> r.id,
     url |-> r.url, method |-> method, params |-> params, out |-> ReqErr("-"),
     resp |-> NoResponse]

(***************************************************************************)
(* FlashbotsMiddleware and BroadcasterMiddleware (middleware.rs)           *)
(***************************************************************************)
NoBundle == BundleRequest_new
NoCall == [kind |-> "-", st |-> "none", bundle |-> NoBundle]

\* Result<PendingBundle, E>, Result<Vec<Result<PendingBundle, E>>, E> and
\* Result<R, E> for the data R of a simulation or a statistics call.
NoResult ==
    [tag |-> "-", err |-> "-", pending |-> NoPending, list |-> << >>, data |-> None]
Err(e) ==
    [tag |-> "Err", err |-> e, pending |-> NoPending, list |-> << >>, data |-> None]
OkPending(pb) ==
    [tag |-> "Ok", err |-> "-", pending |-> pb, list |-> << >>, data |-> None]
OkList(l) ==
    [tag |-> "Ok", err |-> "-", pending |-> NoPending, list |-> l, data |-> None]
OkData(d) ==
    [tag |-> "Ok", err |-> "-", pending |-> NoPending, list |-> << >>, data |-> Some(d)]

(***************************************************************************)
(* PendingBundle (pending_bundle.rs)                                       *)
(***************************************************************************)
\* PendingBundle::new, with the middlewares as constructed and no call made.
PollerInit ==
    /\ request = BundleRequest_new
    /\ wire = None
    /\ pushes = << >>
    /\ value = JsonNull
    /\ decoded = None
    /\ simulated = None
    /\ price = None
    /\ bundle_hash \in Option(BundleHashes)
    /\ block \in BlockNumbers
    /\ transactions \in SeqsUpTo(TxHashes, MaxTxs)
    /\ state = "PausedGettingBlock"
    /\ fut = NoFut
    /\ interval = FALSE
    /\ interval_waker = FALSE
    /\ fut_waker = FALSE
    /\ woken = TRUE
    /\ ret = NotPolled
    /\ readyCount = 0
    /\ retries = 0
    /\ fetched = NoFetch
    /\ relay = Relay_new(1, Some(relay_signer))
    /\ simulation_relay = None
    /\ bc_simulation_relay = Relay_new(0, Some(relay_signer))
    /\ clients = << >>
    /\ requests = << >>
    /\ origin = << >>
    /\ relays = << >>
    /\ call = NoCall
    /\ reqs = << >>
    /\ result = NoResult
    /\ calls = 0

pollerConsts == << bundle_hash, block, transactions >>

\* pending_bundle.rs 70-75 and 120: wait for a tick, then issue the fetch.
PollPaused_NextBlock ==
    /\ state = "PausedGettingBlock"
    /\ IF interval
       THEN /\ interval' = FALSE
            /\ fut' = [st |-> "created", num |-> block + 1, res |-> NoBlock]
            /\ state' = "GettingBlock"
            /\ woken' = TRUE
            /\ interval_waker' = FALSE
            /\ fetched' = NoFetch
       ELSE /\ interval_waker' = TRUE
            /\ woken' = FALSE
            /\ UNCHANGED << interval, fut, state, fetched >>
    /\ ret' = Pending
    /\ UNCHANGED << dataVars, relayVars, mwVars, pollerConsts, fut_waker, readyCount, retries >>

\* A faulty PollPaused: the fetch is issued whether the interval ticked or not.
PollPaused_NoWait ==
    /\ state = "PausedGettingBlock"
    /\ interval' = FALSE
    /\ fut' = [st |-> "created", num |-> block, res |-> NoBlock]
    /\ state' = "GettingBlock"
    /\ woken' = TRUE
    /\ interval_waker' = FALSE
    /\ fetched' = NoFetch
    /\ ret' = Pending
    /\ UNCHANGED << dataVars, relayVars, mwVars, pollerConsts, fut_waker, readyCount, retries >>

\* A faulty PollPaused: the task is not woken after the fetch is issued.
PollPaused_NoWake ==
    /\ state = "PausedGettingBlock"
    /\ IF interval
       THEN /\ interval' = FALSE
            /\ fut' = [st |-> "created", num |-> block, res |-> NoBlock]
            /\ state' = "GettingBlock"
            /\ woken' = FALSE
            /\ interval_waker' = FALSE
            /\ fetched' = NoFetch
       ELSE /\ interval_waker' = TRUE
            /\ woken' = FALSE
            /\ UNCHANGED << interval, fut, state, fetched >>
    /\ ret' = Pending
    /\ UNCHANGED << dataVars, relayVars, mwVars, pollerConsts, fut_waker, readyCount, retries >>

PollPaused ==
    /\ state = "PausedGettingBlock"
    /\ IF interval
       THEN /\ interval' = FALSE
            /\ fut' = [st |-> "created", num |-> block, res |-> NoBlock]
            /\ state' = "GettingBlock"
            /\ woken' = TRUE
            /\ interval_waker' = FALSE
            /\ fetched' = NoFetch
       ELSE /\ interval_waker' = TRUE
            /\ woken' = FALSE
            /\ UNCHANGED << interval, fut, state, fetched >>
    /\ ret' = Pending
    /\ UNCHANGED << dataVars, relayVars, mwVars, pollerConsts, fut_waker, readyCount, retries >>

\* pending_bundle.rs 77: the get_block future is not ready.
PollFetchNotReady ==
    /\ state = "GettingBlock"
    /\ fut.st \in {"created", "inflight"}
    /\ fut' = [fut EXCEPT !.st = "inflight"]
    /\ fut_waker' = TRUE
    /\ woken' = FALSE
    /\ ret' = Pending
    /\ UNCHANGED << dataVars, relayVars, mwVars, pollerConsts, state, interval, interval_waker, readyCount,
                    retries, fetched >>

\* pending_bundle.rs 80-100: the three outcomes that are tried again.
IsRetry(block_res) ==
    \/ block_res.kind = "Err"
    \/ block_res.kind = "None"
    \/ IsNone(block_res.number)

\* A faulty Decide: the provider error is propagated to the caller.
Decide_PropagateErr(block_res, txs, hash) ==
    IF block_res.kind = "Err" THEN ReadyErr("ProviderError")
    ELSE IF block_res.kind = "None" THEN Pending
    ELSE IF IsNone(block_res.number) THEN Pending
    ELSE IF included(txs, block_res.transactions) THEN ReadyOk(hash)
    ELSE ReadyErr("BundleNotIncluded")

\* A faulty Decide: the block's number is not looked at.
Decide_NoNumberCheck(block_res, txs, hash) ==
    IF block_res.kind = "Err" THEN Pending
    ELSE IF block_res.kind = "None" THEN Pending
    ELSE IF included(txs, block_res.transactions) THEN ReadyOk(hash)
    ELSE ReadyErr("BundleNotIncluded")

\* pending_bundle.rs 80-113: what poll returns on a fetched result.
Decide(block_res, txs, hash) ==
    IF block_res.kind = "Err" THEN Pending
    ELSE IF block_res.kind = "None" THEN Pending
    ELSE IF IsNone(block_res.number) THEN Pending
    ELSE IF included(txs, block_res.transactions) THEN ReadyOk(hash)
    ELSE ReadyErr("BundleNotIncluded")

\* A faulty PollFetched: gives up after the second failed fetch.
PollFetched_Capped ==
    /\ state = "GettingBlock"
    /\ fut.st = "done"
    /\ LET d == Decide(fut.res, transactions, bundle_hash)
           r == IF d.tag = "Pending" /\ retries >= 1
                THEN ReadyErr("BundleNotIncluded") ELSE d IN
        /\ ret' = r
        /\ IF r.tag = "Ready"
           THEN /\ state' = "Completed"
                /\ woken' = FALSE
                /\ readyCount' = Min(readyCount + 1, 2)
                /\ UNCHANGED retries
           ELSE /\ state' = "PausedGettingBlock"
                /\ woken' = TRUE
                /\ retries' = Min(retries + 1, MaxRetries)
                /\ UNCHANGED readyCount
    /\ fetched' = fut.res
    /\ fut' = NoFut
    /\ fut_waker' = FALSE
    /\ UNCHANGED << dataVars, relayVars, mwVars, pollerConsts, interval, interval_waker >>

\* A faulty PollFetched: a retry does not wake the task.
PollFetched_NoWake ==
    /\ state = "GettingBlock"
    /\ fut.st = "done"
    /\ LET r == Decide(fut.res, transactions, bundle_hash) IN
        /\ ret' = r
        /\ IF r.tag = "Ready"
           THEN /\ state' = "Completed"
                /\ readyCount' = Min(readyCount + 1, 2)
                /\ UNCHANGED retries
           ELSE /\ state' = "PausedGettingBlock"
                /\ retries' = Min(retries + 1, MaxRetries)
                /\ UNCHANGED readyCount
    /\ woken' = FALSE
    /\ fetched' = fut.res
    /\ fut' = NoFut
    /\ fut_waker' = FALSE
    /\ UNCHANGED << dataVars, relayVars, mwVars, pollerConsts, interval, interval_waker >>

\* pending_bundle.rs 76-114: the get_block future is ready.
PollFetched ==
    /\ state = "GettingBlock"
    /\ fut.st = "done"
    /\ LET r == Decide(fut.res, transactions, bundle_hash) IN
        /\ ret' = r
        /\ IF r.tag = "Ready"
           THEN /\ state' = "Completed"
                /\ woken' = FALSE
                /\ readyCount' = Min(readyCount + 1, 2)
                /\ UNCHANGED retries
           ELSE /\ state' = "PausedGettingBlock"
                /\ woken' = TRUE
                /\ retries' = Min(retries + 1, MaxRetries)
                /\ UNCHANGED readyCount
    /\ fetched' = fut.res
    /\ fut' = NoFut
    /\ fut_waker' = FALSE
    /\ UNCHANGED << dataVars, relayVars, mwVars, pollerConsts, interval, interval_waker >>

\* A faulty PollCompleted: polling again is a silent no-op.
PollCompleted_Silent ==
    /\ state = "Completed"
    /\ ret' = Pending
    /\ woken' = FALSE
    /\ UNCHANGED << dataVars, relayVars, mwVars, pollerConsts, state, fut, interval, interval_waker, fut_waker,
                    readyCount, retries, fetched >>

\* pending_bundle.rs 115-117
PollCompleted ==
    /\ state = "Completed"
    /\ ret' = Panic
    /\ woken' = FALSE
    /\ UNCHANGED << dataVars, relayVars, mwVars, pollerConsts, state, fut, interval, interval_waker, fut_waker,
                    readyCount, retries, fetched >>

\* Future::poll for PendingBundle
Poll == PollPaused \/ PollFetchNotReady \/ PollFetched \/ PollCompleted

\* The interval stream yields its next tick and wakes the task it holds.
Tick ==
    /\ ~interval
    /\ interval' = TRUE
    /\ woken' = (woken \/ interval_waker)
    /\ interval_waker' = FALSE
    /\ UNCHANGED << dataVars, relayVars, mwVars, pollerConsts, state, fut, fut_waker, ret, readyCount, retries,
                    fetched >>

\* The provider answers the get_block request in flight and wakes the task.
ProviderRespond ==
    /\ fut.st = "inflight"
    /\ \E r \in BlockResults(fut.num) :
           fut' = [fut EXCEPT !.st = "done", !.res = r]
    /\ woken' = (woken \/ fut_waker)
    /\ fut_waker' = FALSE
    /\ UNCHANGED << dataVars, relayVars, mwVars, pollerConsts, state, interval, interval_waker, ret, readyCount,
                    retries, fetched >>

\* FlashbotsMiddleware::new, middleware.rs 135-141, with no
\* BroadcasterMiddleware and a PendingBundle nobody polls.
FbInit ==
    /\ request = BundleRequest_new
    /\ wire = None
    /\ pushes = << >>
    /\ value = JsonNull
    /\ decoded = None
    /\ simulated = None
    /\ price = None
    /\ relay = Relay_new(1, Some(relay_signer))
    /\ simulation_relay = None
    /\ bc_simulation_relay = Relay_new(0, Some(relay_signer))
    /\ clients = << >>
    /\ requests = << >>
    /\ origin = << >>
    /\ relays = << >>
    /\ call = NoCall
    /\ reqs = << >>
    /\ result = NoResult
    /\ calls = 0
    /\ bundle_hash = None
    /\ block = 1
    /\ transactions = << >>
    /\ state = "PausedGettingBlock"
    /\ fut = NoFut
    /\ interval = FALSE
    /\ interval_waker = FALSE
    /\ fut_waker = FALSE
    /\ woken = TRUE
    /\ ret = NotPolled
    /\ readyCount = 0
    /\ retries = 0
    /\ fetched = NoFetch

\* BroadcasterMiddleware::new, middleware.rs 382-399, over any number of relay
\* URLs, with a FlashbotsMiddleware nobody calls and a PendingBundle nobody
\* polls.
BcInit ==
    /\ request = BundleRequest_new
    /\ wire = None
    /\ pushes = << >>
    /\ value = JsonNull
    /\ decoded = None
    /\ simulated = None
    /\ price = None
    /\ relay = Relay_new(1, Some(relay_signer))
    /\ simulation_relay = None
    /\ bc_simulation_relay = Relay_new(0, Some(relay_signer))
    /\ clients = << >>
    /\ requests = << >>
    /\ origin = << >>
    /\ relays \in {[i \in 1..n |-> Relay_new(i, Some(relay_signer))] : n \in 0..MaxRelays}
    /\ call = NoCall
    /\ reqs = << >>
    /\ result = NoResult
    /\ calls = 0
    /\ bundle_hash = None
    /\ block = 1
    /\ transactions = << >>
    /\ state = "PausedGettingBlock"
    /\ fut = NoFut
    /\ interval = FALSE
    /\ interval_waker = FALSE
    /\ fut_waker = FALSE
    /\ woken = TRUE
    /\ ret = NotPolled
    /\ readyCount = 0
    /\ retries = 0
    /\ fetched = NoFetch

\* A faulty FbPreflight: the target block is not required.
FbPreflight_NoBlock(bundle) ==
    IF IsSome(xor(bundle.min_timestamp, bundle.max_timestamp)) THEN "MissingParameters"
    ELSE "Ok"

\* A faulty FbPreflight: only a minimum without a maximum is rejected.
FbPreflight_MinOnly(bundle) ==
    IF IsNone(bundle.target_block) THEN "MissingParameters"
    ELSE IF IsSome(bundle.min_timestamp) /\ IsNone(bundle.max_timestamp)
    THEN "MissingParameters"
    ELSE "Ok"

\* middleware.rs 196-204: the checks of FlashbotsMiddleware::send_bundle.
FbPreflight(bundle) ==
    IF IsNone(bundle.target_block) THEN "MissingParameters"
    ELSE IF IsSome(xor(bundle.min_timestamp, bundle.max_timestamp))
    THEN "MissingParameters"
    ELSE "Ok"

\* middleware.rs 451-454: the check of BroadcasterMiddleware::send_bundle.
BcPreflight(bundle) ==
    IF IsNone(bundle.target_block) THEN "MissingParameters"
    ELSE "Ok"

\* A faulty Outcome: the PendingBundle tracks no transaction.
Outcome_NoTransactions(bundle, res) ==
    IF res.ok
    THEN [ok |-> TRUE, err |-> "-", cause |-> "-",
          pending |-> PendingBundle_new(
                          IF IsSome(res.val) THEN Unwrap(res.val).bundle_hash ELSE None,
                          Unwrap(bundle.target_block),
                          << >>)]
    ELSE [ok |-> FALSE, err |-> "RelayError", cause |-> res.err, pending |-> NoPending]

\* middleware.rs 212-225 and 461-476: a relay's result as the caller gets it.
Outcome(bundle, res) ==
    IF res.ok
    THEN [ok |-> TRUE, err |-> "-", cause |-> "-",
          pending |-> PendingBundle_new(
                          IF IsSome(res.val) THEN Unwrap(res.val).bundle_hash ELSE None,
                          Unwrap(bundle.target_block),
                          transaction_hashes(bundle))]
    ELSE [ok |-> FALSE, err |-> "RelayError", cause |-> res.err, pending |-> NoPending]

\* A faulty JoinAll: the failed relays are left out of the list.
JoinAll_OnlyOk(bundle, futs) ==
    LET RECURSIVE keep(_)
        keep(i) == IF i > Len(futs) THEN << >>
                   ELSE IF futs[i].out.ok
                        THEN << Outcome(bundle, futs[i].out) >> \o keep(i + 1)
                        ELSE keep(i + 1)
    IN OkList(keep(1))

\* A faulty JoinAll: the first failure is the result of the whole call.
JoinAll_Try(bundle, futs) ==
    IF \E i \in DOMAIN futs : ~futs[i].out.ok
    THEN Err("RelayError")
    ELSE OkList([i \in DOMAIN futs |-> Outcome(bundle, futs[i].out)])

\* middleware.rs 456-482: the outputs of the futures, in the order of the relays.
JoinAll(bundle, futs) ==
    OkList([i \in DOMAIN futs |-> Outcome(bundle, futs[i].out)])

\* middleware.rs 210-225: what FlashbotsMiddleware::send_bundle returns.
FbReturn(bundle, fu) ==
    LET o == Outcome(bundle, fu.out) IN
    IF o.ok THEN OkPending(o.pending) ELSE Err("RelayError")

\* A faulty SimulateReturn: an absent result is a success without data.
SimulateReturn_NoneOk(fu) ==
    IF ~fu.out.ok THEN Err("RelayError")
    ELSE IF IsNone(fu.out.val) THEN OkData(None)
    ELSE OkData(Unwrap(fu.out.val))

\* middleware.rs 181-183 and 429-431: what simulate_bundle returns.
SimulateReturn(fu) ==
    IF ~fu.out.ok THEN Err("RelayError")
    ELSE IF IsNone(fu.out.val) THEN Err("BundleSimError")
    ELSE OkData(Unwrap(fu.out.val))

\* middleware.rs 242-244: what get_bundle_stats returns.
BundleStatsReturn(fu) ==
    IF ~fu.out.ok THEN Err("RelayError")
    ELSE IF IsNone(fu.out.val) THEN Err("BundleStatsError")
    ELSE OkData(Unwrap(fu.out.val))

\* middleware.rs 265-267: what get_user_stats returns.
UserStatsReturn(fu) ==
    IF ~fu.out.ok THEN Err("RelayError")
    ELSE IF IsNone(fu.out.val) THEN Err("UserStatsError")
    ELSE OkData(Unwrap(fu.out.val))

\* middleware.rs 308-311: send_raw_transaction returns the error of
\* send_bundle, or a PendingTransaction for the hash of the raw transaction.
FbRawReturn(tx, sent) ==
    IF sent.tag = "Err" THEN Err(sent.err)
    ELSE OkData([tx_hash |-> keccak256(tx)])

\* A faulty BcRawReturn: a relay's failure in the list fails the call.
BcRawReturn_ChecksList(tx, sent) ==
    IF sent.tag = "Err" THEN Err(sent.err)
    ELSE IF \E i \in DOMAIN sent.list : ~sent.list[i].ok THEN Err("RelayError")
    ELSE OkData([tx_hash |-> keccak256(tx)])

\* middleware.rs 523-526: the same, where send_bundle returns the list of the
\* relays' results, which is dropped.
BcRawReturn(tx, sent) ==
    IF sent.tag = "Err" THEN Err(sent.err)
    ELSE OkData([tx_hash |-> keccak256(tx)])

\* A faulty AllDone: the first future to finish ends the wait.
AllDone_Any(futs) == \E i \in DOMAIN futs : futs[i].pc = "done"

\* future::join_all (middleware.rs 480) is ready when every future is.
AllDone(futs) == \A i \in DOMAIN futs : futs[i].pc = "done"

\* FlashbotsMiddleware::send_bundle up to its first await, middleware.rs 191-209.
FbSendBundle ==
    /\ call.st # "running"
    /\ calls < MaxCalls
    /\ calls' = calls + 1
    /\ \E bundle \in Bundles :
        IF FbPreflight(bundle) = "Ok"
        THEN /\ call' = [kind |-> "fb_send_bundle", st |-> "running", bundle |-> bundle]
             /\ relay' = Request_start(relay)
             /\ reqs' = << ReqFuture(relay', "eth_sendBundle", << bundle >>) >>
             /\ result' = NoResult
        ELSE /\ call' = [kind |-> "fb_send_bundle", st |-> "returned", bundle |-> bundle]
             /\ result' = Err(FbPreflight(bundle))
             /\ reqs' = << >>
             /\ UNCHANGED relay
    /\ UNCHANGED << dataVars, relayVars, pollerVars, simulation_relay, relays,
                    bc_simulation_relay >>

\* BroadcasterMiddleware::send_bundle up to the first await of each of its
\* futures, middleware.rs 439-480.
BcSendBundle ==
    /\ call.st # "running"
    /\ calls < MaxBroadcasts
    /\ calls' = calls + 1
    /\ \E bundle \in Bundles :
        IF BcPreflight(bundle) = "Ok"
        THEN /\ relays' = [i \in DOMAIN relays |-> Request_start(relays[i])]
             /\ reqs' = [i \in DOMAIN relays |-> ReqFuture(relays'[i], "eth_sendBundle", << bundle >>)]
             /\ IF relays = << >>
                THEN /\ call' = [kind |-> "bc_send_bundle", st |-> "returned",
                                 bundle |-> bundle]
                     /\ result' = JoinAll(bundle, << >>)
                ELSE /\ call' = [kind |-> "bc_send_bundle", st |-> "running",
                                 bundle |-> bundle]
                     /\ result' = NoResult
        ELSE /\ call' = [kind |-> "bc_send_bundle", st |-> "returned", bundle |-> bundle]
             /\ result' = Err(BcPreflight(bundle))
             /\ reqs' = << >>
             /\ UNCHANGED relays
    /\ UNCHANGED << dataVars, relayVars, pollerVars, relay, simulation_relay,
                    bc_simulation_relay >>

\* The call returns once all its request futures are done
\* (middleware.rs 210-225 and 480-482). The finished futures are kept as
\* history until the next call.
Settle(newReqs) ==
    /\ reqs' = newReqs
    /\ IF AllDone(newReqs)
       THEN /\ call' = [call EXCEPT !.st = "returned"]
            /\ result' = CASE call.kind = "fb_send_bundle" ->
                                  FbReturn(call.bundle, newReqs[1])
                            [] call.kind = "bc_send_bundle" ->
                                  JoinAll(call.bundle, newReqs)
                            [] call.kind \in {"fb_simulate_bundle", "bc_simulate_bundle"} ->
                                  SimulateReturn(newReqs[1])
                            [] call.kind = "fb_get_bundle_stats" ->
                                  BundleStatsReturn(newReqs[1])
                            [] call.kind = "fb_get_user_stats" ->
                                  UserStatsReturn(newReqs[1])
                            [] call.kind = "fb_send_raw_transaction" ->
                                  FbRawReturn(call.tx, FbReturn(call.bundle, newReqs[1]))
                            [] call.kind = "bc_send_raw_transaction" ->
                                  BcRawReturn(call.tx, JoinAll(call.bundle, newReqs))
       ELSE UNCHANGED << call, result >>
    /\ UNCHANGED << dataVars, relayVars, pollerVars, relay, simulation_relay, relays,
                    bc_simulation_relay, calls >>

\* relay.rs 83-102: the signer signs and the request is sent.
SignerSigns(i) ==
    /\ call.st = "running"
    /\ i \in DOMAIN reqs
    /\ reqs[i].pc = "signing"
    /\ Settle([reqs EXCEPT ![i].pc = "sent"])

\* relay.rs 94: the signer fails and request returns SignerError.
SignerFails(i) ==
    /\ call.st = "running"
    /\ i \in DOMAIN reqs
    /\ reqs[i].pc = "signing"
    /\ Settle([reqs EXCEPT ![i].pc = "done", ![i].out = ReqErr("SignerError"),
                           ![i].resp = SignerFailure])

\* relay.rs 102-124: the answer arrives and request returns.
RelayResponds(i) ==
    /\ call.st = "running"
    /\ i \in DOMAIN reqs
    /\ reqs[i].pc = "sent"
    /\ \E resp \in Responses :
        Settle([reqs EXCEPT ![i].pc = "done", ![i].out = Classify(resp),
                            ![i].resp = resp])

\* No call is awaiting anything.
Idle == call.st \in {"none", "returned"}

\* A faulty FbSetSimulationRelay: the new relay is given the signer.
FbSetSimulationRelay_Signed ==
    /\ Idle
    /\ simulation_relay' = Some(Relay_new(0, Some(relay_signer)))
    /\ UNCHANGED << dataVars, relayVars, pollerVars, relay, relays, bc_simulation_relay, call,
                    reqs, result, calls >>

\* FlashbotsMiddleware::set_simulation_relay, middleware.rs 158-160. It takes
\* &mut self, so no call is running.
FbSetSimulationRelay ==
    /\ Idle
    /\ simulation_relay' = Some(Relay_new(0, None))
    /\ UNCHANGED << dataVars, relayVars, pollerVars, relay, relays, bc_simulation_relay, call,
                    reqs, result, calls >>

\* A faulty SimPreflight: the simulation timestamp is not required.
SimPreflight_NoTimestamp(bundle) ==
    IF IsSome(and(bundle.target_block, bundle.simulation_block))
    THEN "Ok"
    ELSE "MissingParameters"

\* middleware.rs 171-175 and 421-425: the check of simulate_bundle.
SimPreflight(bundle) ==
    IF IsSome(and(and(bundle.target_block, bundle.simulation_block),
                  bundle.simulation_timestamp))
    THEN "Ok"
    ELSE "MissingParameters"

\* FlashbotsMiddleware::simulate_bundle up to its first await,
\* middleware.rs 167-181.
FbSimulateBundle ==
    /\ Idle
    /\ calls < MaxQueries
    /\ calls' = calls + 1
    /\ \E bundle \in SimBundles :
        IF SimPreflight(bundle) = "Ok"
        THEN /\ call' = [kind |-> "fb_simulate_bundle", st |-> "running",
                         bundle |-> bundle]
             /\ IF IsSome(simulation_relay)
                THEN /\ simulation_relay' = Some(Request_start(Unwrap(simulation_relay)))
                     /\ reqs' = << ReqFuture(Unwrap(simulation_relay'), "eth_callBundle", << bundle >>) >>
                     /\ UNCHANGED relay
                ELSE /\ relay' = Request_start(relay)
                     /\ reqs' = << ReqFuture(relay', "eth_callBundle", << bundle >>) >>
                     /\ UNCHANGED simulation_relay
             /\ result' = NoResult
        ELSE /\ call' = [kind |-> "fb_simulate_bundle", st |-> "returned",
                         bundle |-> bundle]
             /\ result' = Err(SimPreflight(bundle))
             /\ reqs' = << >>
             /\ UNCHANGED << relay, simulation_relay >>
    /\ UNCHANGED << dataVars, relayVars, pollerVars, relays, bc_simulation_relay >>

\* BroadcasterMiddleware::simulate_bundle up to its first await,
\* middleware.rs 417-429.
BcSimulateBundle ==
    /\ Idle
    /\ calls < MaxQueries
    /\ calls' = calls + 1
    /\ \E bundle \in SimBundles :
        IF SimPreflight(bundle) = "Ok"
        THEN /\ call' = [kind |-> "bc_simulate_bundle", st |-> "running",
                         bundle |-> bundle]
             /\ bc_simulation_relay' = Request_start(bc_simulation_relay)
             /\ reqs' = << ReqFuture(bc_simulation_relay', "eth_callBundle", << bundle >>) >>
             /\ result' = NoResult
        ELSE /\ call' = [kind |-> "bc_simulate_bundle", st |-> "returned",
                         bundle |-> bundle]
             /\ result' = Err(SimPreflight(bundle))
             /\ reqs' = << >>
             /\ UNCHANGED bc_simulation_relay
    /\ UNCHANGED << dataVars, relayVars, pollerVars, relay, simulation_relay, relays >>

\* FlashbotsMiddleware::get_bundle_stats up to its first await,
\* middleware.rs 229-242. Its two parameters only go into the request.
FbGetBundleStats ==
    /\ Idle
    /\ calls < MaxQueries
    /\ calls' = calls + 1
    /\ call' = [kind |-> "fb_get_bundle_stats", st |-> "running", bundle |-> NoBundle]
    /\ relay' = Request_start(relay)
    /\ reqs' = << ReqFuture(relay', "flashbots_getBundleStatsV2", << >>) >>
    /\ result' = NoResult
    /\ UNCHANGED << dataVars, relayVars, pollerVars, simulation_relay, relays,
                    bc_simulation_relay >>

\* FlashbotsMiddleware::get_user_stats up to its first await,
\* middleware.rs 251-255: the latest block number is asked of the provider.
FbGetUserStats ==
    /\ Idle
    /\ calls < MaxQueries
    /\ calls' = calls + 1
    /\ call' = [kind |-> "fb_get_user_stats", st |-> "get_block_number",
                bundle |-> NoBundle]
    /\ reqs' = << >>
    /\ result' = NoResult
    /\ UNCHANGED << dataVars, relayVars, pollerVars, relay, simulation_relay, relays,
                    bc_simulation_relay >>

\* middleware.rs 255-265: the provider answers get_block_number; an error is
\* returned as MiddlewareError, a number goes into the request to the relay.
InnerResponds ==
    /\ call.st = "get_block_number"
    /\ \E ok \in BOOLEAN :
        IF ok
        THEN /\ call' = [call EXCEPT !.st = "running"]
             /\ relay' = Request_start(relay)
             /\ reqs' = << ReqFuture(relay', "flashbots_getUserStatsV2", << >>) >>
             /\ UNCHANGED result
        ELSE /\ call' = [call EXCEPT !.st = "returned"]
             /\ result' = Err("MiddlewareError")
             /\ UNCHANGED << relay, reqs >>
    /\ UNCHANGED << dataVars, relayVars, pollerVars, simulation_relay, relays,
                    bc_simulation_relay, calls >>

\* The answers a provider can give to get_block(BlockNumber::Latest).
LatestBlocks ==
    {ProviderErr, NoBlock}
    \cup {BlockOf(num, << >>) : num \in {None} \cup {Some(n) : n \in 0..MaxBlock}}

\* The call panicked.  (In the call made last, latest is history: the number
\* of the block the provider answered with.)
Panicked ==
    [tag |-> "Panic", err |-> "-", pending |-> NoPending, list |-> << >>, data |-> None]

\* middleware.rs 301-306 and 516-521: the bundle send_raw_transaction builds.
RawBundle_SameBlock(tx, number) ==
    set_block(push_transaction(BundleRequest_new, Raw(tx)), number)

RawBundle(tx, number) ==
    set_block(push_transaction(BundleRequest_new, Raw(tx)), number + 1)

\* FlashbotsMiddleware::send_raw_transaction up to its first await,
\* middleware.rs 285-296: the latest block is asked of the provider.
FbSendRawTransaction ==
    /\ Idle
    /\ calls < MaxRawSends
    /\ calls' = calls + 1
    /\ \E tx \in RawTxs :
          call' = [kind |-> "fb_send_raw_transaction", st |-> "get_block",
                   bundle |-> NoBundle, tx |-> tx, latest |-> None]
    /\ reqs' = << >>
    /\ result' = NoResult
    /\ UNCHANGED << dataVars, relayVars, pollerVars, relay, simulation_relay, relays,
                    bc_simulation_relay >>

\* BroadcasterMiddleware::send_raw_transaction up to its first await,
\* middleware.rs 500-511.
BcSendRawTransaction ==
    /\ Idle
    /\ calls < MaxRawSends
    /\ calls' = calls + 1
    /\ \E tx \in RawTxs :
          call' = [kind |-> "bc_send_raw_transaction", st |-> "get_block",
                   bundle |-> NoBundle, tx |-> tx, latest |-> None]
    /\ reqs' = << >>
    /\ result' = NoResult
    /\ UNCHANGED << dataVars, relayVars, pollerVars, relay, simulation_relay, relays,
                    bc_simulation_relay >>

\* middleware.rs 296-308 and 511-523: the provider answers get_block. An error
\* is returned as MiddlewareError, no block or a block without a number is a
\* panic of expect, and with a numbered block the bundle is built and given
\* to send_bundle of the same middleware, which runs up to its first await.
LatestBlockResponds ==
    /\ call.st = "get_block"
    /\ \E latest_block \in LatestBlocks :
        IF latest_block.kind = "Err"
        THEN /\ call' = [call EXCEPT !.st = "returned"]
             /\ result' = Err("MiddlewareError")
             /\ UNCHANGED << relay, relays, reqs >>
        ELSE IF latest_block.kind = "None" \/ IsNone(latest_block.number)
        THEN /\ call' = [call EXCEPT !.st = "panicked"]
             /\ result' = Panicked
             /\ UNCHANGED << relay, relays, reqs >>
        ELSE LET bundle == RawBundle(call.tx, Unwrap(latest_block.number))
                 built == [call EXCEPT !.bundle = bundle,
                                       !.latest = latest_block.number]
             IN
             IF call.kind = "fb_send_raw_transaction"
             THEN IF FbPreflight(bundle) = "Ok"
                  THEN /\ call' = [built EXCEPT !.st = "running"]
                       /\ relay' = Request_start(relay)
                       /\ reqs' = << ReqFuture(relay', "eth_sendBundle", << bundle >>) >>
                       /\ UNCHANGED << relays, result >>
                  ELSE /\ call' = [built EXCEPT !.st = "returned"]
                       /\ result' = Err(FbPreflight(bundle))
                       /\ UNCHANGED << relay, relays, reqs >>
             ELSE IF BcPreflight(bundle) = "Ok"
                  THEN /\ relays' = [i \in DOMAIN relays |-> Request_start(relays[i])]
                       /\ reqs' = [i \in DOMAIN relays |-> ReqFuture(relays'[i], "eth_sendBundle", << bundle >>)]
                       /\ UNCHANGED relay
                       /\ IF relays = << >>
                          THEN /\ call' = [built EXCEPT !.st = "returned"]
                               /\ result' = BcRawReturn(call.tx, JoinAll(bundle, << >>))
                          ELSE /\ call' = [built EXCEPT !.st = "running"]
                               /\ UNCHANGED result
                  ELSE /\ call' = [built EXCEPT !.st = "returned"]
                       /\ result' = Err(BcPreflight(bundle))
                       /\ UNCHANGED << relay, relays, reqs >>
    /\ UNCHANGED << dataVars, relayVars, pollerVars, simulation_relay,
                    bc_simulation_relay, calls >>

RawTxNext ==
    \/ FbSetSimulationRelay
    \/ FbSendRawTransaction
    \/ BcSendRawTransaction
    \/ LatestBlockResponds
    \/ \E i \in 1..MaxRelays : SignerSigns(i) \/ SignerFails(i) \/ RelayResponds(i)

QueryNext ==
    \/ FbSetSimulationRelay
    \/ FbSimulateBundle
    \/ BcSimulateBundle
    \/ FbGetBundleStats
    \/ FbGetUserStats
    \/ InnerResponds
    \/ SignerSigns(1)
    \/ SignerFails(1)
    \/ RelayResponds(1)

FbNext == FbSendBundle \/ SignerSigns(1) \/ SignerFails(1) \/ RelayResponds(1)

BcNext ==
    \/ BcSendBundle
    \/ \E i \in 1..MaxRelays : SignerSigns(i) \/ SignerFails(i) \/ RelayResponds(i)

PollerNext == Poll \/ Tick \/ ProviderRespond

\* A PendingBundle driven by its executor, its interval and its provider.
PollerSpec == PollerInit /\ [][PollerNext]_vars

\* The executor polls a task that has been woken.
ExecutorPoll == woken /\ Poll

\* The provider answers the request in flight with a numbered block.
ProviderRespondNumbered ==
    /\ ProviderRespond
    /\ fut'.res.kind = "Block"
    /\ IsSome(fut'.res.number)

\* The interval keeps ticking, a woken task is polled, every request is
\* answered, and a numbered block is the answer at some time.
PollerFairSpec ==
    /\ PollerSpec
    /\ WF_vars(Tick)
    /\ WF_vars(ExecutorPoll)
    /\ WF_vars(ProviderRespond)
    /\ SF_vars(ProviderRespondNumbered)

\* A FlashbotsMiddleware, its relay and a caller making calls in turn.
FbSpec == FbInit /\ [][FbNext]_vars

\* A BroadcasterMiddleware, its relays and a caller making calls in turn.
BcSpec == BcInit /\ [][BcNext]_vars

(***************************************************************************)
(* Relay::request step by step, and Relay::clone (relay.rs)                *)
(***************************************************************************)
\* The method and the parameters of the calls made here: one bundle submitted
\* again and again, so that two requests differ by their id only.
Methods == {"eth_sendBundle"}
RequestParams == {1}

\* jsonrpc::Request::new
Request_new(id, method, params) == [id |-> id, method |-> method, params |-> params]

\* serde_json::to_string of a Request: the text of its id and its parameter
\* (the method is the same in every request made here).
to_string(payload) == 10 * payload.id + payload.params

\* relay.rs 85-92: the message given to the signer, "0x" and the hex digits of
\* the hash of the body.
SigningMessage(payload) == << "0x", keccak256(to_string(payload)) >>

\* Signer::sign_message and Signer::address
Sign(signer, message) == [by |-> signer, over |-> message]
address(signer) == << "address", signer >>

\* relay.rs 96-99: the value of the X-Flashbots-Signature header.
SignatureHeader(signer, signature) == << address(signer), signature >>

\* relay.rs 81 and 102: the POST request handed to the HTTP client.
Post(url, header, body) == [url |-> url, signature_header |-> header, body |-> body]

\* A call of Relay::request on client c, before its first step.
\* raced is history: another call on the same client was between its load and
\* its store when this one loaded.
RequestCall(c, method, params, raced) ==
    [relay |-> c, pc |-> "start", method |-> method, params |-> params,
     next_id |-> 0, payload |-> None, message |-> None, http |-> None,
     out |-> ReqErr("-"), raced |-> raced]

RelayInit ==
    /\ request = BundleRequest_new
    /\ wire = None
    /\ pushes = << >>
    /\ value = JsonNull
    /\ decoded = None
    /\ simulated = None
    /\ price = None
    /\ clients \in {<< Relay_new(1, s) >> : s \in Option({relay_signer})}
    /\ requests = << >>
    /\ origin = << 0 >>
    /\ relay = Relay_new(1, Some(relay_signer))
    /\ simulation_relay = None
    /\ bc_simulation_relay = Relay_new(0, Some(relay_signer))
    /\ relays = << >>
    /\ call = NoCall
    /\ reqs = << >>
    /\ result = NoResult
    /\ calls = 0
    /\ bundle_hash = None
    /\ block = 1
    /\ transactions = << >>
    /\ state = "PausedGettingBlock"
    /\ fut = NoFut
    /\ interval = FALSE
    /\ interval_waker = FALSE
    /\ fut_waker = FALSE
    /\ woken = TRUE
    /\ ret = NotPolled
    /\ readyCount = 0
    /\ retries = 0
    /\ fetched = NoFetch

\* A faulty next_id: the counter is read without the increment.
next_id_PostIncrement(r) == r.id

\* relay.rs 76: the value of next_id.
next_id(r) == r.id + 1

\* relay.rs 76: a call of request begins and loads the counter.
Request_load(c) ==
    /\ c \in DOMAIN clients
    /\ Len(requests) < MaxRequests
    /\ \E method \in Methods, params \in RequestParams :
        requests' = Append(requests,
            [RequestCall(c, method, params,
                         \E j \in DOMAIN requests :
                             requests[j].relay = c /\ requests[j].pc = "loaded")
             EXCEPT !.pc = "loaded", !.next_id = next_id(clients[c])])
    /\ UNCHANGED << dataVars, pollerVars, mwVars, clients, origin >>

\* A faulty AfterStore: a relay without signer sends an empty signature header.
AfterStore_HeaderAlways(r, q) ==
    LET payload == Request_new(q.next_id, q.method, q.params) IN
    IF IsSome(r.signer)
    THEN [q EXCEPT !.pc = "signing", !.payload = Some(payload),
                   !.message = Some(SigningMessage(payload))]
    ELSE [q EXCEPT !.pc = "sent", !.payload = Some(payload),
                   !.http = Some(Post(r.url, Some(<< >>), payload))]

\* relay.rs 79-102: the request is built; with a signer the hash of its body
\* is given to the signer, without one the request is sent as it is.
AfterStore(r, q) ==
    LET payload == Request_new(q.next_id, q.method, q.params) IN
    IF IsSome(r.signer)
    THEN [q EXCEPT !.pc = "signing", !.payload = Some(payload),
                   !.message = Some(SigningMessage(payload))]
    ELSE [q EXCEPT !.pc = "sent", !.payload = Some(payload),
                   !.http = Some(Post(r.url, None, payload))]

\* relay.rs 77-102: the counter is stored and the call runs to its first await.
Request_store(k) ==
    /\ k \in DOMAIN requests
    /\ requests[k].pc = "loaded"
    /\ LET c == requests[k].relay IN
        /\ clients' = [clients EXCEPT ![c].id = requests[k].next_id]
        /\ requests' = [requests EXCEPT ![k] = AfterStore(clients'[c], requests[k])]
    /\ UNCHANGED << dataVars, pollerVars, mwVars, origin >>

\* A faulty AfterSigned: the body is built again from the counter when sent.
AfterSigned_Rebuilt(r, q) ==
    [q EXCEPT !.pc = "sent",
              !.http = Some(Post(r.url,
                                 Some(SignatureHeader(Unwrap(r.signer),
                                          Sign(Unwrap(r.signer), Unwrap(q.message)))),
                                 Request_new(r.id, q.method, q.params)))]

\* relay.rs 94-102: the signature goes into the header and the request is sent.
AfterSigned(r, q) ==
    [q EXCEPT !.pc = "sent",
              !.http = Some(Post(r.url,
                                 Some(SignatureHeader(Unwrap(r.signer),
                                          Sign(Unwrap(r.signer), Unwrap(q.message)))),
                                 Unwrap(q.payload)))]

\* relay.rs 84-102: the signer signs.
Request_signed(k) ==
    /\ k \in DOMAIN requests
    /\ requests[k].pc = "signing"
    /\ requests' = [requests EXCEPT
                        ![k] = AfterSigned(clients[requests[k].relay], requests[k])]
    /\ UNCHANGED << dataVars, pollerVars, mwVars, clients, origin >>

\* A faulty AfterSignFailed: the request is sent unsigned before the error is
\* returned.
AfterSignFailed_SendsUnsigned(r, q) ==
    [q EXCEPT !.pc = "done", !.out = ReqErr("SignerError"),
              !.http = Some(Post(r.url, None, Unwrap(q.payload)))]

\* relay.rs 94: map_err(RelayError::SignerError)? returns from request.
AfterSignFailed(r, q) == [q EXCEPT !.pc = "done", !.out = ReqErr("SignerError")]

\* relay.rs 84-94: the signer fails.
Request_sign_failed(k) ==
    /\ k \in DOMAIN requests
    /\ requests[k].pc = "signing"
    /\ requests' = [requests EXCEPT
                        ![k] = AfterSignFailed(clients[requests[k].relay], requests[k])]
    /\ UNCHANGED << dataVars, pollerVars, mwVars, clients, origin >>

\* relay.rs 102-124: the answer arrives and request returns.
Request_answered(k) ==
    /\ k \in DOMAIN requests
    /\ requests[k].pc = "sent"
    /\ \E resp \in Responses :
        requests' = [requests EXCEPT ![k].pc = "done", ![k].out = Classify(resp)]
    /\ UNCHANGED << dataVars, pollerVars, mwVars, clients, origin >>

\* A faulty clone: the counter is copied.
clone_KeepsCounter(r) == r

\* Relay::clone, relay.rs 128-137
clone(r) == [id |-> 0, url |-> r.url, signer |-> r.signer]

\* A clone of client c is made.
Relay_clone(c) ==
    /\ c \in DOMAIN clients
    /\ Len(clients) < MaxClients
    /\ clients' = Append(clients, clone(clients[c]))
    /\ origin' = Append(origin, c)
    /\ UNCHANGED << dataVars, pollerVars, mwVars, requests >>

RelayNext ==
    \/ \E c \in 1..MaxClients : Request_load(c) \/ Relay_clone(c)
    \/ \E k \in 1..MaxRequests :
          \/ Request_store(k)
          \/ Request_signed(k)
          \/ Request_sign_failed(k)
          \/ Request_answered(k)

\* Relay clients, with or without a signer, called from any number of tasks
\* and threads and cloned.
RelaySpec == RelayInit /\ [][RelayNext]_vars

\* A FlashbotsMiddleware and a BroadcasterMiddleware asked to simulate bundles
\* and for statistics, one call at a time.
QuerySpec == FbInit /\ [][QueryNext]_vars

\* Both middlewares, their relays and a caller making submission,
\* simulation and statistics calls in turn, MaxMiddlewareCalls calls at most.
MoreCalls == calls < MaxMiddlewareCalls

MiddlewareNext ==
    \/ FbSetSimulationRelay
    \/ MoreCalls /\ FbSendBundle
    \/ MoreCalls /\ BcSendBundle
    \/ MoreCalls /\ FbSimulateBundle
    \/ MoreCalls /\ BcSimulateBundle
    \/ MoreCalls /\ FbGetBundleStats
    \/ MoreCalls /\ FbGetUserStats
    \/ InnerResponds
    \/ \E i \in 1..MaxRelays : SignerSigns(i) \/ SignerFails(i) \/ RelayResponds(i)

\* A FlashbotsMiddleware and a BroadcasterMiddleware built with two relays
\* (middleware.rs 135-141 and 382-399).
MiddlewareInit ==
    /\ request = BundleRequest_new
    /\ wire = None
    /\ pushes = << >>
    /\ value = JsonNull
    /\ decoded = None
    /\ simulated = None
    /\ price = None
    /\ relay = Relay_new(1, Some(relay_signer))
    /\ simulation_relay = None
    /\ bc_simulation_relay = Relay_new(0, Some(relay_signer))
    /\ clients = << >>
    /\ requests = << >>
    /\ origin = << >>
    /\ relays = << Relay_new(1, Some(relay_signer)), Relay_new(2, Some(relay_signer)) >>
    /\ call = NoCall
    /\ reqs = << >>
    /\ result = NoResult
    /\ calls = 0
    /\ bundle_hash = None
    /\ block = 1
    /\ transactions = << >>
    /\ state = "PausedGettingBlock"
    /\ fut = NoFut
    /\ interval = FALSE
    /\ interval_waker = FALSE
    /\ fut_waker = FALSE
    /\ woken = TRUE
    /\ ret = NotPolled
    /\ readyCount = 0
    /\ retries = 0
    /\ fetched = NoFetch

MiddlewareSpec == MiddlewareInit /\ [][MiddlewareNext]_vars

\* Both middlewares and a caller sending raw transactions.
RawTxSpec == BcInit /\ [][RawTxNext]_vars

(***************************************************************************)
(* Building and serializing a BundleRequest (bundle.rs)                    *)
(***************************************************************************)
BundleInit ==
    /\ request = BundleRequest_new
    /\ wire = None
    /\ pushes = << >>
    /\ value = JsonNull
    /\ decoded = None
    /\ simulated = None
    /\ price = None
    /\ clients = << Relay_new(1, None) >>
    /\ requests = << >>
    /\ origin = << 0 >>
    /\ relay = Relay_new(1, Some(relay_signer))
    /\ simulation_relay = None
    /\ bc_simulation_relay = Relay_new(0, Some(relay_signer))
    /\ relays = << >>
    /\ call = NoCall
    /\ reqs = << >>
    /\ result = NoResult
    /\ calls = 0
    /\ bundle_hash = None
    /\ block = 1
    /\ transactions = << >>
    /\ state = "PausedGettingBlock"
    /\ fut = NoFut
    /\ interval = FALSE
    /\ interval_waker = FALSE
    /\ fut_waker = FALSE
    /\ woken = TRUE
    /\ ret = NotPolled
    /\ readyCount = 0
    /\ retries = 0
    /\ fetched = NoFetch

\* The builder calls are made on the request until it is serialized.
Building == IsNone(wire)

PushTransaction ==
    /\ Building
    /\ Len(pushes) < MaxPushes
    /\ \E tx \in AnyBundleTransactions :
          /\ request' = push_transaction(request, tx)
          /\ pushes' = Append(pushes, [tx |-> tx, revertible |-> FALSE])
    /\ UNCHANGED << pollerVars, mwVars, relayVars, wire, value, decoded, simVars >>

PushRevertibleTransaction ==
    /\ Building
    /\ Len(pushes) < MaxPushes
    /\ \E tx \in AnyBundleTransactions :
          /\ request' = push_revertible_transaction(request, tx)
          /\ pushes' = Append(pushes, [tx |-> tx, revertible |-> TRUE])
    /\ UNCHANGED << pollerVars, mwVars, relayVars, wire, value, decoded, simVars >>

SetBlock ==
    /\ Building
    /\ \E blk \in BlockNumbers : request' = set_block(request, blk)
    /\ UNCHANGED << pollerVars, mwVars, relayVars, wire, pushes, value, decoded, simVars >>

SetSimulationBlock ==
    /\ Building
    /\ \E blk \in BlockNumbers : request' = set_simulation_block(request, blk)
    /\ UNCHANGED << pollerVars, mwVars, relayVars, wire, pushes, value, decoded, simVars >>

SetSimulationTimestamp ==
    /\ Building
    /\ \E t \in Timestamps : request' = set_simulation_timestamp(request, t)
    /\ UNCHANGED << pollerVars, mwVars, relayVars, wire, pushes, value, decoded, simVars >>

SetSimulationBasefee ==
    /\ Building
    /\ \E fee \in Basefees : request' = set_simulation_basefee(request, fee)
    /\ UNCHANGED << pollerVars, mwVars, relayVars, wire, pushes, value, decoded, simVars >>

SetMinTimestamp ==
    /\ Building
    /\ \E t \in Timestamps : request' = set_min_timestamp(request, t)
    /\ UNCHANGED << pollerVars, mwVars, relayVars, wire, pushes, value, decoded, simVars >>

SetMaxTimestamp ==
    /\ Building
    /\ \E t \in Timestamps : request' = set_max_timestamp(request, t)
    /\ UNCHANGED << pollerVars, mwVars, relayVars, wire, pushes, value, decoded, simVars >>

\* serde_json::to_value(&bundle)
Serialize ==
    /\ Building
    /\ wire' = Some(to_json(request))
    /\ UNCHANGED << pollerVars, mwVars, relayVars, request, pushes, value, decoded, simVars >>

BundleNext ==
    \/ PushTransaction
    \/ PushRevertibleTransaction
    \/ SetBlock
    \/ SetSimulationBlock
    \/ SetSimulationTimestamp
    \/ SetSimulationBasefee
    \/ SetMinTimestamp
    \/ SetMaxTimestamp
    \/ Serialize

BundleSpec == BundleInit /\ [][BundleNext]_vars

(***************************************************************************)
(* Decoding one field of a simulation result (utils.rs)                    *)
(***************************************************************************)
DecodeInit ==
    /\ request = BundleRequest_new
    /\ wire = None
    /\ pushes = << >>
    /\ value \in JsonValues
    /\ decoded = None
    /\ simulated = None
    /\ price = None
    /\ clients = << Relay_new(1, None) >>
    /\ requests = << >>
    /\ origin = << 0 >>
    /\ relay = Relay_new(1, Some(relay_signer))
    /\ simulation_relay = None
    /\ bc_simulation_relay = Relay_new(0, Some(relay_signer))
    /\ relays = << >>
    /\ call = NoCall
    /\ reqs = << >>
    /\ result = NoResult
    /\ calls = 0
    /\ bundle_hash = None
    /\ block = 1
    /\ transactions = << >>
    /\ state = "PausedGettingBlock"
    /\ fut = NoFut
    /\ interval = FALSE
    /\ interval_waker = FALSE
    /\ fut_waker = FALSE
    /\ woken = TRUE
    /\ ret = NotPolled
    /\ readyCount = 0
    /\ retries = 0
    /\ fetched = NoFetch

\* The field is given to each of the three decoders.
Decode ==
    /\ IsNone(decoded)
    /\ decoded' = Some([u64 |-> deserialize_u64(value),
                        u256 |-> deserialize_u256(value),
                        h160 |-> deserialize_optional_h160(value)])
    /\ UNCHANGED << pollerVars, mwVars, relayVars, request, wire, pushes, value, simVars >>

DecodeNext == Decode

DecodeSpec == DecodeInit /\ [][DecodeNext]_vars

(***************************************************************************)
(* Simulation results and their effective gas price (bundle.rs)            *)
(***************************************************************************)
\* What a call that returns a U256 did: it returned v, or it panicked.
Quotient(v) == [panicked |-> FALSE, v |-> v, message |-> "-"]
DivisionByZero == [panicked |-> TRUE, v |-> 0, message |-> "division by zero"]

\* A faulty U256_div: the quotient is rounded up.
U256_div_RoundsUp(a, b) ==
    IF b = 0 THEN DivisionByZero ELSE Quotient((a + b - 1) \div b)

\* A faulty U256_div: a zero divisor gives zero.
U256_div_ZeroOnZero(a, b) ==
    IF b = 0 THEN Quotient(0) ELSE Quotient(a \div b)

\* U256 / U256: the quotient rounded toward zero; a zero divisor panics.
U256_div(a, b) ==
    IF b = 0 THEN DivisionByZero ELSE Quotient(a \div b)

\* The encodings a relay gives an amount, the string "0x" and a value of the
\* wrong type.
AmountsUpTo(n) ==
    UNION {{JsonString(DecString(v)), JsonString(HexString(v)), JsonNumber(v)} : v \in 0..n}
    \cup {JsonString(<< "0", "x" >>), JsonNull}

CoinbaseDiffs == AmountsUpTo(MaxCoinbaseDiff)
GasUseds == AmountsUpTo(MaxGasUsed)

\* The object of a simulated transaction and of a simulated bundle, with the
\* two fields effective_gas_price reads (the other fields decode).
SimulatedTransactionJson(coinbaseDiff, gasUsed) ==
    ("coinbaseDiff" :> coinbaseDiff) @@ ("gasUsed" :> gasUsed)

SimulatedBundleJson(coinbaseDiff, totalGasUsed) ==
    ("coinbaseDiff" :> coinbaseDiff) @@ ("totalGasUsed" :> totalGasUsed)

\* #[derive(Deserialize)] of SimulatedTransaction: each field goes through the
\* decoder its deserialize_with names, and an error of any fails the whole.
SimulatedTransaction_deserialize(json) ==
    [type |-> "SimulatedTransaction",
     json |-> json,
     ok |-> deserialize_u256(json["coinbaseDiff"]).ok /\ deserialize_u256(json["gasUsed"]).ok,
     coinbase_diff |-> deserialize_u256(json["coinbaseDiff"]).v,
     gas_used |-> deserialize_u256(json["gasUsed"]).v]

\* #[derive(Deserialize)] of SimulatedBundle.
SimulatedBundle_deserialize(json) ==
    [type |-> "SimulatedBundle",
     json |-> json,
     ok |-> deserialize_u256(json["coinbaseDiff"]).ok
            /\ deserialize_u256(json["totalGasUsed"]).ok,
     coinbase_diff |-> deserialize_u256(json["coinbaseDiff"]).v,
     gas_used |-> deserialize_u256(json["totalGasUsed"]).v]

\* SimulatedTransaction::effective_gas_price
SimulatedTransaction_effective_gas_price(self) ==
    U256_div(self.coinbase_diff, self.gas_used)

\* SimulatedBundle::effective_gas_price
SimulatedBundle_effective_gas_price(self) ==
    U256_div(self.coinbase_diff, self.gas_used)

SimulationInit ==
    /\ request = BundleRequest_new
    /\ wire = None
    /\ pushes = << >>
    /\ value = JsonNull
    /\ decoded = None
    /\ simulated = None
    /\ price = None
    /\ clients = << Relay_new(1, None) >>
    /\ requests = << >>
    /\ origin = << 0 >>
    /\ relay = Relay_new(1, Some(relay_signer))
    /\ simulation_relay = None
    /\ bc_simulation_relay = Relay_new(0, Some(relay_signer))
    /\ relays = << >>
    /\ call = NoCall
    /\ reqs = << >>
    /\ result = NoResult
    /\ calls = 0
    /\ bundle_hash = None
    /\ block = 1
    /\ transactions = << >>
    /\ state = "PausedGettingBlock"
    /\ fut = NoFut
    /\ interval = FALSE
    /\ interval_waker = FALSE
    /\ fut_waker = FALSE
    /\ woken = TRUE
    /\ ret = NotPolled
    /\ readyCount = 0
    /\ retries = 0
    /\ fetched = NoFetch

\* A simulated transaction arrives from the relay and is deserialized.
DeserializeSimulatedTransaction ==
    /\ IsNone(simulated)
    /\ \E coinbaseDiff \in CoinbaseDiffs, gasUsed \in GasUseds :
          simulated' = Some(SimulatedTransaction_deserialize(
                                SimulatedTransactionJson(coinbaseDiff, gasUsed)))
    /\ UNCHANGED << pollerVars, mwVars, relayVars, request, wire, pushes, value,
                    decoded, price >>

\* A simulated bundle arrives from the relay and is deserialized.
DeserializeSimulatedBundle ==
    /\ IsNone(simulated)
    /\ \E coinbaseDiff \in CoinbaseDiffs, totalGasUsed \in GasUseds :
          simulated' = Some(SimulatedBundle_deserialize(
                                SimulatedBundleJson(coinbaseDiff, totalGasUsed)))
    /\ UNCHANGED << pollerVars, mwVars, relayVars, request, wire, pushes, value,
                    decoded, price >>

\* The caller asks a simulated transaction for its effective gas price.
TransactionEffectiveGasPrice ==
    /\ IsSome(simulated)
    /\ Unwrap(simulated).ok
    /\ Unwrap(simulated).type = "SimulatedTransaction"
    /\ IsNone(price)
    /\ price' = Some(SimulatedTransaction_effective_gas_price(Unwrap(simulated)))
    /\ UNCHANGED << pollerVars, mwVars, relayVars, request, wire, pushes, value,
                    decoded, simulated >>

\* The caller asks a simulated bundle for its effective gas price.
BundleEffectiveGasPrice ==
    /\ IsSome(simulated)
    /\ Unwrap(simulated).ok
    /\ Unwrap(simulated).type = "SimulatedBundle"
    /\ IsNone(price)
    /\ price' = Some(SimulatedBundle_effective_gas_price(Unwrap(simulated)))
    /\ UNCHANGED << pollerVars, mwVars, relayVars, request, wire, pushes, value,
                    decoded, simulated >>

SimulationNext ==
    \/ DeserializeSimulatedTransaction
    \/ DeserializeSimulatedBundle
    \/ TransactionEffectiveGasPrice
    \/ BundleEffectiveGasPrice

SimulationSpec == SimulationInit /\ [][SimulationNext]_vars

(***************************************************************************)
(* A bundle submitted and its PendingBundle awaited (examples/advanced.rs)  *)
(***************************************************************************)
\* The caller awaits the PendingBundle send_bundle returned: from here on it
\* is the poller that the executor, the interval and the provider drive.
AwaitPendingBundle ==
    /\ call.kind = "fb_send_bundle"
    /\ call.st = "returned"
    /\ result.tag = "Ok"
    /\ call' = [call EXCEPT !.st = "awaited"]
    /\ bundle_hash' = result.pending.bundle_hash
    /\ block' = result.pending.block
    /\ transactions' = result.pending.transactions
    /\ state' = result.pending.state
    /\ fut' = NoFut
    /\ interval' = FALSE
    /\ interval_waker' = FALSE
    /\ fut_waker' = FALSE
    /\ woken' = TRUE
    /\ ret' = NotPolled
    /\ readyCount' = 0
    /\ retries' = 0
    /\ fetched' = NoFetch
    /\ UNCHANGED << dataVars, relayVars, relay, simulation_relay, relays,
                    bc_simulation_relay, reqs, result, calls >>

Awaited == call.st = "awaited"

\* The answers the provider gives for the target block of an awaited bundle:
\* an error, no block, a pending block, and the block with no transaction,
\* with another transaction, and with the bundle's transactions after another.
AwaitedBlockResults ==
    {ProviderErr, NoBlock, BlockOf(None, << >>)}
    \cup {BlockOf(Some(fut.num), txs) : txs \in {<< >>, << 1 >>, << 1 >> \o transactions}}

\* The provider answers the get_block request in flight and wakes the task.
ProviderRespondAwaited ==
    /\ Awaited
    /\ fut.st = "inflight"
    /\ \E r \in AwaitedBlockResults :
           fut' = [fut EXCEPT !.st = "done", !.res = r]
    /\ woken' = (woken \/ fut_waker)
    /\ fut_waker' = FALSE
    /\ UNCHANGED << dataVars, relayVars, mwVars, pollerConsts, state, interval,
                    interval_waker, ret, readyCount, retries, fetched >>

AwaitNext ==
    \/ MoreCalls /\ FbSendBundle
    \/ SignerSigns(1)
    \/ SignerFails(1)
    \/ RelayResponds(1)
    \/ AwaitPendingBundle
    \/ Awaited /\ PollPaused
    \/ Awaited /\ PollFetchNotReady
    \/ Awaited /\ PollFetched
    \/ Awaited /\ PollCompleted
    \/ Awaited /\ Tick
    \/ ProviderRespondAwaited

\* A FlashbotsMiddleware whose caller submits bundles and awaits the
\* PendingBundle of each accepted one.
AwaitSpec == FbInit /\ [][AwaitNext]_vars

(***************************************************************************)
(* Claims about the poller.                                                *)
(***************************************************************************)
Range(s) == {s[i] : i \in DOMAIN s}

Numbered(r) == r.kind = "Block" /\ IsSome(r.number)
IsFetchOutcome(r) == r.kind \in {"Err", "None", "Block"}
NullOrPending(r) == r.kind = "None" \/ (r.kind = "Block" /\ IsNone(r.number))

\* A step in which poll takes the result out of the finished get_block future.
ConsumesFetch == state = "GettingBlock" /\ fut.st = "done" /\ fut'.st # "done"

\* C1: a poll that finds a numbered target block completes; the result is
\* Ok(bundle_hash) exactly when the set of tracked hashes is a subset of the
\* set of the block's transaction hashes, and BundleNotIncluded otherwise.
C1_InclusionIff ==
    /\ [](state = "Completed" /\ ret.tag = "Ready" =>
            /\ Numbered(fetched)
            /\ ret = IF Range(transactions) \subseteq Range(fetched.transactions)
                     THEN ReadyOk(bundle_hash)
                     ELSE ReadyErr("BundleNotIncluded"))
    /\ [][ConsumesFetch /\ Numbered(fut.res) =>
            state' = "Completed" /\ ret'.tag = "Ready"]_vars

\* C1 witness: two tracked hashes found in a block that lists them in the
\* other order.
C1_Witness ==
    /\ state = "Completed"
    /\ ret = ReadyOk(bundle_hash)
    /\ Len(transactions) = 2
    /\ transactions[1] # transactions[2]
    /\ fetched.transactions = << transactions[2], transactions[1] >>

\* C2: at most one Ready result is ever returned, Completed is never left,
\* and a poll in Completed returns neither Pending nor a result: it panics.
C2_CompletesOnce ==
    /\ [](readyCount <= 1)
    /\ [][state = "Completed" =>
            /\ state' = "Completed"
            /\ readyCount' = readyCount
            /\ ret' \in {ret, Panic}]_vars

\* C2 witness: the completed poller was polled again and panicked.
C2_Witness == state = "Completed" /\ ret = Panic /\ readyCount = 1

\* C3: a provider error sends the poller back to waiting with Pending; the
\* only Ready results are Ok and BundleNotIncluded.
C3_ProviderErrorSwallowed ==
    /\ [](ret.tag = "Ready" => ret.res \in {"Ok", "BundleNotIncluded"})
    /\ [](fetched.kind = "Err" => state = "PausedGettingBlock")
    /\ [][ConsumesFetch /\ fut.res.kind = "Err" =>
            state' = "PausedGettingBlock" /\ ret' = Pending]_vars

\* C3 witness: a provider error was consumed and poll returned Pending.
C3_Witness ==
    state = "PausedGettingBlock" /\ fetched.kind = "Err" /\ ret = Pending

\* C4: a null block or a block without a number sends the poller back to
\* waiting without a result, whatever the block lists.
C4_NullOrPendingRetried ==
    /\ [](NullOrPending(fetched) => state = "PausedGettingBlock")
    /\ [][ConsumesFetch /\ NullOrPending(fut.res) =>
            /\ state' = "PausedGettingBlock"
            /\ ret' = Pending
            /\ readyCount' = readyCount]_vars

\* C4 witness: a pending block listing every tracked hash was consumed and
\* the poller is waiting again.
C4_Witness ==
    /\ state = "PausedGettingBlock"
    /\ ret = Pending
    /\ fetched.kind = "Block"
    /\ IsNone(fetched.number)
    /\ transactions # << >>
    /\ Range(transactions) \subseteq Range(fetched.transactions)

\* C5: under PollerFairSpec the poller reaches Completed with a Ready result.
C5_EventuallyCompleted == <>(state = "Completed" /\ ret.tag = "Ready")

\* C5 witness: completion after at least one retry.
C5_Witness == state = "Completed" /\ ret.tag = "Ready" /\ retries >= 1

\* C6: whatever the number of retry outcomes consumed so far, a further retry
\* outcome leaves the poller waiting, and the next tick it consumes issues a
\* fetch of the target block.
C6_NoRetryCap ==
    /\ [](IsFetchOutcome(fetched) /\ IsRetry(fetched) => state = "PausedGettingBlock")
    /\ [][ConsumesFetch /\ IsRetry(fut.res) =>
            state' = "PausedGettingBlock" /\ readyCount' = readyCount]_vars
    /\ [][state = "PausedGettingBlock" /\ interval /\ ~interval' =>
            /\ state' = "GettingBlock"
            /\ fut' = [st |-> "created", num |-> block, res |-> NoBlock]]_vars

\* C6 witness: a fetch in flight after MaxRetries retry outcomes.
C6_Witness == retries = MaxRetries /\ state = "GettingBlock" /\ fut.st = "inflight"

(***************************************************************************)
(* Claims about the middlewares.                                           *)
(***************************************************************************)
\* A step in which a call of the given kind is made.
Calls(kind) == calls' # calls /\ call'.kind = kind

Returned(kind) == call.kind = kind /\ call.st = "returned"

\* The answers for which request returns Ok.
Accepted(resp) == resp.status = "2xx" /\ resp.body \in {"null", "result"}

ExactlyOneTimestamp(bundle) ==
    IsSome(bundle.min_timestamp) # IsSome(bundle.max_timestamp)

\* C7: a broadcast with a target block returns Ok with one outcome per relay,
\* in the order of the relays: the i-th outcome is a PendingBundle exactly when
\* the i-th relay accepted, with the hash that relay acknowledged, and the
\* error of that relay's own failure otherwise; every relay's counter advanced
\* by one and every relay whose request was signed was sent it.
C7_BroadcastIndependent ==
    /\ [](Returned("bc_send_bundle") /\ IsSome(call.bundle.target_block) =>
            /\ result.tag = "Ok"
            /\ Len(result.list) = Len(relays)
            /\ Len(reqs) = Len(relays)
            /\ \A i \in DOMAIN relays :
                LET o == result.list[i]
                    l == reqs[i].resp
                IN  /\ o.ok = Accepted(l)
                    /\ o.ok => /\ o.pending.bundle_hash = l.hash
                               /\ o.pending.block = Unwrap(call.bundle.target_block)
                    /\ l.status = "4xx" =>
                            o.err = "RelayError" /\ o.cause = "ClientError"
                    /\ l.status = "signer" => o.cause = "SignerError"
                    /\ l.status # "-"
                    /\ reqs[i].id = relays[i].id)
    /\ [][Calls("bc_send_bundle") /\ IsSome(call'.bundle.target_block) =>
            /\ DOMAIN relays' = DOMAIN relays
            /\ \A i \in DOMAIN relays : relays'[i].id = relays[i].id + 1]_vars

\* C7 witness: the first relay answered 400, the second acknowledged a hash.
C7_Witness ==
    /\ Returned("bc_send_bundle")
    /\ result.tag = "Ok"
    /\ Len(result.list) >= 2
    /\ Len(reqs) >= 2
    /\ reqs[1].resp.status = "4xx"
    /\ ~result.list[1].ok
    /\ result.list[2].ok
    /\ IsSome(result.list[2].pending.bundle_hash)
    /\ reqs[2].resp.status = "2xx"

C9_MissingBlockRejected ==
    /\ [](call.kind = "fb_send_bundle" /\ IsNone(call.bundle.target_block) =>
            call.st = "returned" /\ result = Err("MissingParameters"))
    /\ [][Calls("fb_send_bundle") /\ IsNone(call'.bundle.target_block) =>
            relay' = relay /\ reqs' = << >>]_vars

\* C9 witness: rejected after an earlier call had advanced the counter to 1.
C9_Witness ==
    /\ Returned("fb_send_bundle")
    /\ IsNone(call.bundle.target_block)
    /\ result = Err("MissingParameters")
    /\ relay.id = 1

\* C10: FlashbotsMiddleware::send_bundle on a bundle with exactly one of the
\* two timestamps returns MissingParameters and leaves the relay as it was;
\* with a target block and both or neither timestamp the request is made.
C10_TimestampsBothOrNeither ==
    /\ [](call.kind = "fb_send_bundle" /\ ExactlyOneTimestamp(call.bundle) =>
            call.st = "returned" /\ result = Err("MissingParameters"))
    /\ [][Calls("fb_send_bundle") /\ ExactlyOneTimestamp(call'.bundle) =>
            relay' = relay /\ reqs' = << >>]_vars
    /\ [][/\ Calls("fb_send_bundle")
          /\ ~ExactlyOneTimestamp(call'.bundle)
          /\ IsSome(call'.bundle.target_block)
          => /\ call'.st = "running"
             /\ relay'.id = relay.id + 1
             /\ Len(reqs') = 1]_vars

\* C10 witness: a target block and a maximum without a minimum, rejected with
\* the counter still at the 1 of an earlier call.
C10_Witness ==
    /\ Returned("fb_send_bundle")
    /\ IsSome(call.bundle.target_block)
    /\ IsNone(call.bundle.min_timestamp)
    /\ IsSome(call.bundle.max_timestamp)
    /\ result = Err("MissingParameters")
    /\ relay.id = 1

\* C11: send_bundle on a bundle with no transactions returns MissingParameters
\* at once and makes no request.
C11_EmptyBundleRejected ==
    call.kind \in {"fb_send_bundle", "bc_send_bundle"}
    /\ call.bundle.transactions = << >>
    => /\ call.st = "returned"
       /\ result = Err("MissingParameters")
       /\ reqs = << >>

\* C12: BroadcasterMiddleware::send_bundle on a bundle with exactly one of the
\* two timestamps returns MissingParameters and makes no request.
C12_BroadcastTimestampsBothOrNeither ==
    call.kind = "bc_send_bundle" /\ ExactlyOneTimestamp(call.bundle)
    => /\ call.st = "returned"
       /\ result = Err("MissingParameters")
       /\ reqs = << >>

(***************************************************************************)
(* Claims about simulation and statistics calls.                           *)
(***************************************************************************)
IsSimulate(kind) == kind \in {"fb_simulate_bundle", "bc_simulate_bundle"}

\* A step in which simulate_bundle is called on either middleware.
CallsSimulate == calls' # calls /\ IsSimulate(call'.kind)

AllSimulationParameters(bundle) ==
    /\ IsSome(bundle.target_block)
    /\ IsSome(bundle.simulation_block)
    /\ IsSome(bundle.simulation_timestamp)

\* The relay simulate_bundle sends to, before and after a step.
SimulationRelayUsed ==
    IF call'.kind = "bc_simulate_bundle" THEN bc_simulation_relay
    ELSE IF IsSome(simulation_relay) THEN Unwrap(simulation_relay)
    ELSE relay

SimulationRelayUsedAfter ==
    IF call'.kind = "bc_simulate_bundle" THEN bc_simulation_relay'
    ELSE IF IsSome(simulation_relay) THEN Unwrap(simulation_relay')
    ELSE relay'

\* C13: simulate_bundle, on either middleware, returns MissingParameters and
\* makes no request when the target block, the simulation block or the
\* simulation timestamp is unset, and makes its request when all three are set.
C13_SimulationParameters ==
    /\ [](IsSimulate(call.kind) /\ ~AllSimulationParameters(call.bundle) =>
            /\ call.st = "returned"
            /\ result = Err("MissingParameters")
            /\ reqs = << >>)
    /\ [][CallsSimulate /\ ~AllSimulationParameters(call'.bundle) =>
            /\ relay' = relay
            /\ simulation_relay' = simulation_relay
            /\ bc_simulation_relay' = bc_simulation_relay]_vars
    /\ [][CallsSimulate /\ AllSimulationParameters(call'.bundle) =>
            /\ call'.st = "running"
            /\ result' = NoResult
            /\ Len(reqs') = 1
            /\ reqs'[1].url = SimulationRelayUsed.url
            /\ reqs'[1].id = SimulationRelayUsed.id + 1
            /\ SimulationRelayUsedAfter.id = SimulationRelayUsed.id + 1]_vars

\* C13 witness: a simulation with a target block and a simulation block but no
\* simulation timestamp was rejected after an earlier simulation had been sent.
C13_Witness ==
    /\ Returned("fb_simulate_bundle")
    /\ IsSome(call.bundle.target_block)
    /\ IsSome(call.bundle.simulation_block)
    /\ IsNone(call.bundle.simulation_timestamp)
    /\ result = Err("MissingParameters")
    /\ relay.id = 1

\* The relay answered with a result of null.
NullResult(resp) == resp.status = "2xx" /\ resp.body = "null"

\* Relay::request returned Ok(None).
EmptyResult(fu) == fu.pc = "done" /\ fu.out.ok /\ IsNone(fu.out.val)

EmptyResultError(kind) ==
    CASE IsSimulate(kind) -> "BundleSimError"
      [] kind = "fb_get_bundle_stats" -> "BundleStatsError"
      [] kind = "fb_get_user_stats" -> "UserStatsError"

DataCalls ==
    {"fb_simulate_bundle", "bc_simulate_bundle", "fb_get_bundle_stats",
     "fb_get_user_stats"}

\* C20: when the request to the relay yields no result (Ok(None)),
\* simulate_bundle returns BundleSimError, get_bundle_stats BundleStatsError
\* and get_user_stats UserStatsError: never a success and never a RelayError.
C20_EmptyResultErrors ==
    /\ [](/\ call.kind \in DataCalls
          /\ call.st = "returned"
          /\ Len(reqs) = 1
          /\ EmptyResult(reqs[1])
          => result = Err(EmptyResultError(call.kind)))
    /\ [][\A i \in DOMAIN reqs :
            /\ call.kind \in DataCalls
            /\ i \in DOMAIN reqs'
            /\ reqs[i].pc = "sent"
            /\ EmptyResult(reqs'[i])
            => /\ call'.st = "returned"
               /\ result'.tag = "Err"
               /\ result'.err \notin {"RelayError", "MissingParameters"}]_vars

\* C20 witness: get_user_stats got the block number, then a null result.
C20_Witness ==
    /\ Returned("fb_get_user_stats")
    /\ Len(reqs) = 1
    /\ NullResult(reqs[1].resp)
    /\ EmptyResult(reqs[1])
    /\ result = Err("UserStatsError")

(***************************************************************************)
(* Claims about the answers of a relay.                                    *)
(***************************************************************************)
\* The outcome of Relay::request, by name.
OutcomeOf(out) ==
    IF out.ok THEN (IF IsSome(out.val) THEN "Ok(Some)" ELSE "Ok(None)") ELSE out.err

AnswerOutcomes ==
    {"Ok(Some)", "Ok(None)", "ClientError", "RequestError", "JsonRpcError",
     "ResponseSerdeJson"}

\* C19: every answer of the relay ends the request with exactly one outcome:
\* 4xx gives ClientError with the body, 5xx gives RequestError, a success
\* status gives JsonRpcError for an error object, Ok(Some(payload)) for a
\* result, Ok(None) for a null result, and ResponseSerdeJson with the body for
\* a body that is no envelope.
C19_ResponseClassification ==
    /\ [](\A i \in DOMAIN reqs :
            reqs[i].pc = "done" /\ reqs[i].resp.status # "signer" =>
            LET r == reqs[i].resp
                o == reqs[i].out
            IN  /\ OutcomeOf(o) \in AnswerOutcomes
                /\ r.status = "4xx" =>
                        OutcomeOf(o) = "ClientError" /\ o.text = r.body
                /\ r.status = "5xx" => OutcomeOf(o) = "RequestError"
                /\ r.status = "2xx" /\ r.body = "error" =>
                        OutcomeOf(o) = "JsonRpcError"
                /\ r.status = "2xx" /\ r.body = "result" =>
                        o.ok /\ o.val = Some([bundle_hash |-> r.hash])
                /\ r.status = "2xx" /\ r.body = "null" => o.ok /\ o.val = None
                /\ r.status = "2xx" /\ r.body = "garbage" =>
                        OutcomeOf(o) = "ResponseSerdeJson" /\ o.text = r.body)
    /\ [][\A i \in DOMAIN reqs :
            i \in DOMAIN reqs' /\ reqs[i].pc = "sent" /\ reqs'[i] # reqs[i] =>
            /\ reqs'[i].pc = "done"
            /\ reqs'[i].resp \in Responses
            /\ OutcomeOf(reqs'[i].out) \in AnswerOutcomes]_vars

\* C19 witness: a 500 answered the second request of the relay and the call
\* returned a RelayError whose cause is RequestError.
C19_Witness ==
    /\ Returned("fb_send_bundle")
    /\ Len(reqs) = 1
    /\ reqs[1].id = 2
    /\ reqs[1].resp.status = "5xx"
    /\ reqs[1].out = ReqErr("RequestError")
    /\ result = Err("RelayError")

(***************************************************************************)
(* Claims about the relay client.                                          *)
(***************************************************************************)
\* The position of call k among the calls made on its client, in call order.
Ordinal(k) == Cardinality({j \in 1..k : requests[j].relay = requests[k].relay})

\* Among the calls made on the client of call k, up to call k, one loaded the
\* counter while another was between its load and its store.
RacedUpTo(k) ==
    \E j \in 1..k : requests[j].relay = requests[k].relay /\ requests[j].raced

\* C14: on a client whose calls did not overlap between load and store (as
\* when they are made one after another), the k-th call carries request id k,
\* and a client no call was made on has its counter at 0.
C14_SequentialIds ==
    /\ [](\A k \in DOMAIN requests :
            ~RacedUpTo(k) =>
            /\ requests[k].next_id = Ordinal(k)
            /\ IsSome(requests[k].payload) =>
                    Unwrap(requests[k].payload).id = Ordinal(k)
            /\ IsSome(requests[k].http) =>
                    Unwrap(requests[k].http).body.id = Ordinal(k))
    /\ [](\A c \in DOMAIN clients :
            (\A k \in DOMAIN requests : requests[k].relay # c) => clients[c].id = 0)

\* C14 witness: a second call made after the first had returned was sent with
\* id 2.
C14_Witness ==
    /\ Len(requests) = 2
    /\ requests[1].relay = requests[2].relay
    /\ requests[1].pc = "done"
    /\ ~requests[2].raced
    /\ IsSome(requests[2].http)
    /\ Unwrap(requests[2].http).body.id = 2
    /\ Unwrap(requests[1].payload).id = 1

\* C15: a clone starts with its counter at 0 and the URL and the signer of
\* the client it was made from, whose counter and every other client are left
\* as they were; the first call on a client carries id 1; and a client's counter
\* changes only when a call on that very client stores it.
C15_CloneResetsCounter ==
    /\ [][Len(clients') > Len(clients) =>
            LET n == Len(clients')
                o == origin'[n]
            IN  /\ n = Len(clients) + 1
                /\ o \in DOMAIN clients
                /\ clients'[n].id = 0
                /\ clients'[n].url = clients[o].url
                /\ clients'[n].signer = clients[o].signer
                /\ \A c \in DOMAIN clients : clients'[c] = clients[c]]_vars
    /\ [](\A k \in DOMAIN requests : Ordinal(k) = 1 => requests[k].next_id = 1)
    /\ [][\A c \in DOMAIN clients :
            clients'[c] # clients[c] =>
            \E k \in DOMAIN requests :
                /\ requests[k].relay = c
                /\ requests[k].pc = "loaded"
                /\ requests'[k].pc # "loaded"
                /\ clients'[c] = [clients[c] EXCEPT !.id = requests[k].next_id]]_vars

\* C15 witness: the original has made a call, and the first call on its clone
\* was sent with id 1.
C15_Witness ==
    /\ Len(clients) = 2
    /\ origin[2] = 1
    /\ clients[1].id = 1
    /\ clients[2].id = 1
    /\ clients[2].signer = clients[1].signer
    /\ Len(requests) = 2
    /\ requests[1].relay = 1
    /\ requests[1].pc = "done"
    /\ requests[2].relay = 2
    /\ IsSome(requests[2].http)
    /\ Unwrap(requests[2].http).body.id = 1

\* C16: a request that was sent carries the signature header exactly when its
\* relay has a signer, and a call on a relay without signer never waits for a
\* signature, has no message to sign and never ends with SignerError.
C16_HeaderIffSigner ==
    [](\A k \in DOMAIN requests :
        LET r == clients[requests[k].relay]
            q == requests[k]
        IN  /\ IsSome(q.http) =>
                (IsSome(Unwrap(q.http).signature_header) <=> IsSome(r.signer))
            /\ IsNone(r.signer) =>
                /\ q.pc # "signing"
                /\ IsNone(q.message)
                /\ q.out # ReqErr("SignerError"))

\* C16 witness: a relay without signer sent a request without the header and
\* was answered.
C16_Witness ==
    /\ IsNone(clients[1].signer)
    /\ Len(requests) >= 1
    /\ requests[1].pc = "done"
    /\ IsSome(requests[1].http)
    /\ IsNone(Unwrap(requests[1].http).signature_header)

\* C17: the signature in the header of a sent request is the signer's, over
\* the message made from the very body that was sent, and that body has the
\* id, the method and the parameters of the call.
C17_SignedBodyIsSentBody ==
    [](\A k \in DOMAIN requests :
        LET r == clients[requests[k].relay]
            q == requests[k]
        IN  IsSome(q.http) /\ IsSome(r.signer) =>
            LET h == Unwrap(q.http) IN
            /\ h.signature_header =
                   Some(SignatureHeader(Unwrap(r.signer),
                            Sign(Unwrap(r.signer), SigningMessage(h.body))))
            /\ h.body = Request_new(q.next_id, q.method, q.params))

\* C17 witness: two signed requests of one relay in flight at once, with
\* different ids.
C17_Witness ==
    /\ Len(requests) = 2
    /\ requests[1].relay = requests[2].relay
    /\ requests[1].pc = "sent"
    /\ requests[2].pc = "sent"
    /\ IsSome(Unwrap(requests[1].http).signature_header)
    /\ IsSome(Unwrap(requests[2].http).signature_header)
    /\ Unwrap(requests[1].http).body.id # Unwrap(requests[2].http).body.id

\* C18: a call whose signer fails returns SignerError straight from the
\* signing step, and no request of that call is ever sent.
C18_SignerFailureSendsNothing ==
    /\ [](\A k \in DOMAIN requests :
            requests[k].out = ReqErr("SignerError") =>
                requests[k].pc = "done" /\ IsNone(requests[k].http))
    /\ [][\A k \in DOMAIN requests :
            requests[k].pc = "signing" /\ requests'[k].pc = "done" =>
                /\ requests'[k].out = ReqErr("SignerError")
                /\ IsNone(requests'[k].http)]_vars

\* C18 witness: the first call ended with SignerError and sent nothing, the
\* second call on the same relay was signed and sent.
C18_Witness ==
    /\ Len(requests) = 2
    /\ requests[1].relay = requests[2].relay
    /\ requests[1].out = ReqErr("SignerError")
    /\ IsNone(requests[1].http)
    /\ requests[2].pc = "sent"

(***************************************************************************)
(* Claims about building and serializing a BundleRequest                   *)
(***************************************************************************)
\* The JSON object the request was serialized to.
Wire == Unwrap(wire)
Serialized == IsSome(wire)

\* The bytes a serialized byte string stands for: its hex digits read back.
BytesOf(str) == Number(SubSeq(str.s, 3, Len(str.s)), 16)

\* C25: for every bundle built by push_transaction and
\* push_revertible_transaction calls, transaction_hashes() is as long as
\* transactions(), the transactions are in push order, and the i-th hash is
\* the content hash of the bytes serialized as the i-th element of txs.
C25_HashesOfWireTxs ==
    /\ Len(transaction_hashes(request)) = Len(request.transactions)
    /\ Len(request.transactions) = Len(pushes)
    /\ \A i \in DOMAIN pushes : request.transactions[i] = pushes[i].tx
    /\ Serialized =>
          /\ Wire["txs"].type = "Array"
          /\ Len(Wire["txs"].s) = Len(pushes)
          /\ \A i \in DOMAIN pushes :
                transaction_hashes(request)[i] = keccak256(BytesOf(Wire["txs"].s[i]))

C25_Witness ==
    /\ Serialized
    /\ Len(pushes) = 2
    /\ pushes[1].tx.variant # pushes[2].tx.variant
    /\ transaction_hashes(request)[1] # transaction_hashes(request)[2]

\* C26: push_revertible_transaction(tx) appends tx as the last transaction and
\* appends to the revertible list the hash of the bytes tx is serialized as,
\* for a raw and for a signed tx; hence every revertible hash of a bundle is
\* the entry of transaction_hashes() of one of its transactions.
PushedRevertible ==
    /\ Len(pushes') = Len(pushes) + 1
    /\ pushes'[Len(pushes')].revertible

C26_RevertibleHashOfPushedTx ==
    /\ [][PushedRevertible =>
            LET tx == pushes'[Len(pushes')].tx
            IN  /\ request'.transactions = Append(request.transactions, tx)
                /\ request'.revertible_transaction_hashes =
                      Append(request.revertible_transaction_hashes,
                             keccak256(BytesOf(serialize_txs(<< tx >>).s[1])))]_vars
    /\ [](\A j \in DOMAIN request.revertible_transaction_hashes :
             \E i \in DOMAIN request.transactions :
                transaction_hashes(request)[i] = request.revertible_transaction_hashes[j])

C26_Witness ==
    /\ Len(pushes) = 2
    /\ pushes[1].revertible /\ pushes[1].tx.variant = "Signed"
    /\ pushes[2].revertible /\ pushes[2].tx.variant = "Raw"
    /\ Len(request.revertible_transaction_hashes) = 2

\* The keys of the optional fields, each with the field it serializes.
OptionalKeys ==
    << << "blockNumber", request.target_block >>,
       << "minTimestamp", request.min_timestamp >>,
       << "maxTimestamp", request.max_timestamp >>,
       << "stateBlockNumber", request.simulation_block >>,
       << "timestamp", request.simulation_timestamp >>,
       << "baseFee", request.simulation_basefee >> >>

\* txs is always there, each optional key exactly when its field is set, no
\* value is null, and every key is txs, an optional key or one of the others.
KeysAsSet(others) ==
    Serialized =>
        /\ "txs" \in DOMAIN Wire
        /\ request.transactions = << >> => Wire["txs"] = JsonArrayOf(<< >>)
        /\ \A i \in DOMAIN OptionalKeys :
              OptionalKeys[i][1] \in DOMAIN Wire <=> IsSome(OptionalKeys[i][2])
        /\ \A k \in DOMAIN Wire : Wire[k].type # "Null"
        /\ DOMAIN Wire \subseteq
              {"txs"} \cup {OptionalKeys[i][1] : i \in DOMAIN OptionalKeys} \cup others

\* C27, as claimed: in the serialized bundle txs is always present (an empty
\* list for an empty bundle), each of blockNumber, minTimestamp, maxTimestamp,
\* stateBlockNumber, timestamp and baseFee is present exactly when its field
\* was set, no key has a null value and no other key appears.
C27_NoOtherKeys == KeysAsSet({})

\* C27, amended: the same, where the only other key that can appear is
\* revertingTxHashes.
C27_SerializedKeys == KeysAsSet({"revertingTxHashes"})

C27_Witness ==
    /\ Serialized
    /\ request.transactions = << >>
    /\ IsSome(request.target_block) /\ IsNone(request.min_timestamp)
    /\ IsSome(request.simulation_basefee) /\ IsNone(request.simulation_block)
    /\ DOMAIN Wire = {"txs", "blockNumber", "baseFee"}

\* C28, as claimed: a bundle with no revertible transactions serializes with
\* the key revertingTxHashes present and equal to the empty list.
C28_EmptyRevertibleListSerialized ==
    (Serialized /\ request.revertible_transaction_hashes = << >>) =>
        /\ "revertingTxHashes" \in DOMAIN Wire
        /\ Wire["revertingTxHashes"] = JsonArrayOf(<< >>)

\* C28, amended: of the two lists only the transaction list is serialized
\* when empty; a bundle whose revertible list is empty serializes without the
\* key revertingTxHashes.
C28_EmptyRevertibleListOmitted ==
    Serialized =>
        /\ request.transactions = << >> => Wire["txs"] = JsonArrayOf(<< >>)
        /\ request.revertible_transaction_hashes = << >> =>
              "revertingTxHashes" \notin DOMAIN Wire

C28_Witness ==
    /\ Serialized
    /\ Len(request.transactions) = 1
    /\ request.revertible_transaction_hashes = << >>
    /\ "revertingTxHashes" \notin DOMAIN Wire

\* The transactions pushed as revertible, in push order.
RECURSIVE RevertiblePushes(_)
RevertiblePushes(ps) ==
    IF ps = << >> THEN << >>
    ELSE IF ps[Len(ps)].revertible
    THEN Append(RevertiblePushes(SubSeq(ps, 1, Len(ps) - 1)), ps[Len(ps)].tx)
    ELSE RevertiblePushes(SubSeq(ps, 1, Len(ps) - 1))

\* C29: the key revertingTxHashes is omitted from the serialized bundle when
\* no revertible transaction was pushed, and present, with the hashes of the
\* revertible transactions in push order, as soon as one was pushed.
C29_RevertingTxHashesIffPushed ==
    Serialized =>
        IF RevertiblePushes(pushes) = << >>
        THEN "revertingTxHashes" \notin DOMAIN Wire
        ELSE /\ "revertingTxHashes" \in DOMAIN Wire
             /\ Wire["revertingTxHashes"] =
                   JsonArrayOf([i \in DOMAIN RevertiblePushes(pushes) |->
                       HexHash(keccak256(BytesOf(
                           serialize_txs(<< RevertiblePushes(pushes)[i] >>).s[1])))])

C29_Witness ==
    /\ Serialized
    /\ Len(RevertiblePushes(pushes)) = 2
    /\ RevertiblePushes(pushes)[1] # RevertiblePushes(pushes)[2]
    /\ "revertingTxHashes" \in DOMAIN Wire

(***************************************************************************)
(* Claims about the decoders                                               *)
(***************************************************************************)
Decoded == Unwrap(decoded)

\* The encodings of a number: decimal string, hex string and JSON number.
EncodingsOf(v) == {JsonString(DecString(v)), JsonString(HexString(v)), JsonNumber(v)}

UnsignedNumber == value.type = "Number" /\ value.n >= 0

\* C30: the decimal-string, the 0x-prefixed hex-string and the JSON-number
\* encoding of every v up to MaxValue decode to v with the U64 and with the
\* U256 decoder; the string "0x" decodes to zero; a value that is neither a
\* string nor an unsigned number is an error of both.  The address decoder
\* decodes "0x" to no address and fails on every value that is not a string.
C30_TolerantDecoders ==
    IsSome(decoded) =>
        /\ \A v \in 0..MaxValue :
              value \in EncodingsOf(v) =>
                  /\ Decoded.u64 = DecodeOk(v)
                  /\ Decoded.u256 = DecodeOk(v)
        /\ value = JsonString(<< "0", "x" >>) =>
              /\ Decoded.u64 = DecodeOk(0)
              /\ Decoded.u256 = DecodeOk(0)
              /\ Decoded.h160.ok /\ Decoded.h160.v = None
        /\ (value.type # "String" /\ ~UnsignedNumber) =>
              /\ ~Decoded.u64.ok
              /\ ~Decoded.u256.ok
        /\ value.type # "String" => ~Decoded.h160.ok

C30_Witness ==
    /\ IsSome(decoded)
    /\ value = JsonString(HexString(MaxValue))
    /\ Len(value.s) > 3
    /\ Decoded.u64 = DecodeOk(MaxValue)
    /\ ~Decoded.h160.ok

(***************************************************************************)
(* Claims about what a PendingBundle touches                               *)
(***************************************************************************)
\* C23: the poller changes nothing of a middleware or a relay (no relay's id
\* counter, no request), its target block is the one fixed at construction,
\* and every fetch it issues asks the block source for the block with that
\* number; so a PendingBundle abandoned in any state leaves the relays as they were.
C23_PollerOnlyFetchesTargetBlock ==
    /\ [][/\ mwVars' = mwVars
          /\ relayVars' = relayVars
          /\ block' = block]_vars
    /\ [](fut.st # "none" => fut.num = block)

C23_Witness ==
    /\ state = "GettingBlock"
    /\ fut.st = "inflight"
    /\ fut.num = block
    /\ retries >= 1
    /\ relay = Relay_new(1, Some(relay_signer))
    /\ reqs = << >>

(***************************************************************************)
(* Claims about send_raw_transaction                                       *)
(***************************************************************************)
IsRawSend(kind) == kind \in {"fb_send_raw_transaction", "bc_send_raw_transaction"}

\* send_raw_transaction got a numbered latest block and called send_bundle.
Submitting == IsRawSend(call.kind) /\ IsSome(call.latest)

\* C24: the bundle send_raw_transaction submits, on either middleware, holds
\* exactly the given raw transaction, no revertible hash, no timestamp and no
\* simulation field, and targets the latest block number plus one; the call
\* makes one request to each submission relay and none to a simulation relay.
C24_RawTransactionBundle ==
    /\ [](Submitting =>
            /\ call.bundle.transactions = << Raw(call.tx) >>
            /\ call.bundle.revertible_transaction_hashes = << >>
            /\ IsNone(call.bundle.min_timestamp)
            /\ IsNone(call.bundle.max_timestamp)
            /\ IsNone(call.bundle.simulation_block)
            /\ IsNone(call.bundle.simulation_timestamp)
            /\ IsNone(call.bundle.simulation_basefee)
            /\ call.bundle.target_block = Some(Unwrap(call.latest) + 1)
            /\ Len(reqs) = IF call.kind = "fb_send_raw_transaction" THEN 1
                           ELSE Len(relays)
            /\ \A i \in DOMAIN reqs :
                  reqs[i].url = IF call.kind = "fb_send_raw_transaction" THEN relay.url
                                ELSE relays[i].url)
    /\ [](IsRawSend(call.kind) /\ IsNone(call.latest) => reqs = << >>)
    /\ [][/\ bc_simulation_relay' = bc_simulation_relay
          /\ IsSome(simulation_relay) => simulation_relay' = simulation_relay
          /\ relay'.id # relay.id =>
                /\ call'.kind = "fb_send_raw_transaction"
                /\ call.st = "get_block"
                /\ relay'.id = relay.id + 1
          /\ relays' # relays =>
                /\ call'.kind = "bc_send_raw_transaction"
                /\ call.st = "get_block"
                /\ \A i \in DOMAIN relays : relays'[i].id = relays[i].id + 1]_vars

C24_Witness ==
    /\ call.kind = "bc_send_raw_transaction"
    /\ call.st = "returned"
    /\ call.latest = Some(1)
    /\ call.bundle.target_block = Some(2)
    /\ Len(reqs) = 2
    /\ result.tag = "Ok"
    /\ IsSome(simulation_relay)

(***************************************************************************)
(* Claims about the PendingBundle of a submission and the relay of a call  *)
(***************************************************************************)
\* pb is the PendingBundle made of what Relay::request returned in fu, for bundle.
PendingBundleOf(pb, fu, bundle) ==
    /\ pb.state = "PausedGettingBlock"
    /\ pb.block = Unwrap(bundle.target_block)
    /\ Len(pb.transactions) = Len(bundle.transactions)
    /\ \A i \in DOMAIN bundle.transactions :
          pb.transactions[i] = keccak256(bundle.transactions[i].bytes)
    /\ pb.bundle_hash = IF IsSome(fu.out.val) THEN Unwrap(fu.out.val).bundle_hash
                        ELSE None

MakesRequests == call.st # "running" /\ call'.st = "running" /\ reqs' # << >>

\* The relays whose id counter a step advances by one: each is named by the
\* field that holds it and, for relays, its position.
Advanced ==
    {n \in {<< "relay", 0 >>, << "simulation_relay", 0 >>,
            << "bc_simulation_relay", 0 >>} :
        CASE n[1] = "relay" -> relay'.id = relay.id + 1
          [] n[1] = "simulation_relay" ->
                /\ IsSome(simulation_relay) /\ IsSome(simulation_relay')
                /\ Unwrap(simulation_relay').id = Unwrap(simulation_relay).id + 1
          [] n[1] = "bc_simulation_relay" ->
                bc_simulation_relay'.id = bc_simulation_relay.id + 1}
    \cup {<< "relays", i >> : i \in {j \in DOMAIN relays : relays'[j].id = relays[j].id + 1}}

\* No relay's id counter changes in a step other than by Advanced.
OnlyAdvanced ==
    /\ relay'.id \in {relay.id, relay.id + 1}
    /\ bc_simulation_relay'.id \in {bc_simulation_relay.id, bc_simulation_relay.id + 1}
    /\ IsSome(simulation_relay) =>
          /\ IsSome(simulation_relay')
          /\ Unwrap(simulation_relay').id \in
                {Unwrap(simulation_relay).id, Unwrap(simulation_relay).id + 1}
    /\ IsNone(simulation_relay) => IsNone(simulation_relay')
    /\ DOMAIN relays' = DOMAIN relays
    /\ \A i \in DOMAIN relays : relays'[i].id \in {relays[i].id, relays[i].id + 1}

\* C22: a simulation call makes its request to the simulation relay, and to
\* the submission relay only when a FlashbotsMiddleware has none; submission
\* and statistics calls make theirs to the submission relay(s) and leave the
\* simulation relay alone; the relay set_simulation_relay installs has no
\* signer, so a request to it is sent without being signed.
C22_RelayOfCall ==
    [][MakesRequests =>
        /\ OnlyAdvanced
        /\ CASE call'.kind = "fb_simulate_bundle" ->
                   IF IsSome(simulation_relay)
                   THEN /\ Advanced = {<< "simulation_relay", 0 >>}
                        /\ reqs' = << ReqFuture(Unwrap(simulation_relay'), reqs'[1].method, reqs'[1].params) >>
                        /\ IsNone(Unwrap(simulation_relay).signer)
                        /\ reqs'[1].pc = "sent"
                   ELSE /\ Advanced = {<< "relay", 0 >>}
                        /\ reqs' = << ReqFuture(relay', reqs'[1].method, reqs'[1].params) >>
             [] call'.kind = "bc_simulate_bundle" ->
                   /\ Advanced = {<< "bc_simulation_relay", 0 >>}
                   /\ reqs' = << ReqFuture(bc_simulation_relay', reqs'[1].method, reqs'[1].params) >>
             [] call'.kind \in {"fb_send_bundle", "fb_get_bundle_stats",
                                "fb_get_user_stats"} ->
                   /\ Advanced = {<< "relay", 0 >>}
                   /\ reqs' = << ReqFuture(relay', reqs'[1].method, reqs'[1].params) >>
                   /\ simulation_relay' = simulation_relay
             [] call'.kind = "bc_send_bundle" ->
                   /\ Advanced = {<< "relays", i >> : i \in DOMAIN relays}
                   /\ Len(reqs') = Len(relays)
                   /\ reqs' = [i \in DOMAIN relays |-> ReqFuture(relays'[i], reqs'[i].method, reqs'[i].params)]
                   /\ bc_simulation_relay' = bc_simulation_relay]_vars

C22_Witness ==
    /\ call.kind = "fb_simulate_bundle"
    /\ call.st = "running"
    /\ IsSome(simulation_relay)
    /\ Unwrap(simulation_relay).id = 1
    /\ relay.id = 0
    /\ reqs[1].url = Unwrap(simulation_relay).url
    /\ reqs[1].pc = "sent"

(***************************************************************************)
(* Claims about the effective gas price                                    *)
(***************************************************************************)
Simulated == Unwrap(simulated)
Price == Unwrap(price)

\* The field of the object that holds the gas used.
GasUsedJson ==
    IF Simulated.type = "SimulatedTransaction" THEN Simulated.json["gasUsed"]
    ELSE Simulated.json["totalGasUsed"]

\* C31: effective_gas_price of a simulated transaction and of a simulated
\* bundle whose gas_used is above zero returns the floor of
\* coinbase_diff / gas_used: the value p it returns satisfies
\* p * gas_used <= coinbase_diff < (p + 1) * gas_used.
C31_EffectiveGasPriceIsFloor ==
    (IsSome(price) /\ Simulated.gas_used > 0) =>
        /\ ~Price.panicked
        /\ Price.v = Simulated.coinbase_diff \div Simulated.gas_used
        /\ Price.v * Simulated.gas_used <= Simulated.coinbase_diff
        /\ Simulated.coinbase_diff < (Price.v + 1) * Simulated.gas_used

C31_Witness ==
    /\ IsSome(price)
    /\ Simulated.type = "SimulatedBundle"
    /\ Simulated.json["coinbaseDiff"] = JsonString(DecString(MaxCoinbaseDiff))
    /\ Simulated.gas_used = 2
    /\ Simulated.coinbase_diff % Simulated.gas_used # 0
    /\ Price.v * Simulated.gas_used < Simulated.coinbase_diff

\* C39: a gas_used given as the string "0x" or as the number 0 passes the
\* decoder and is zero, and effective_gas_price of a simulated transaction or
\* bundle whose gas_used is zero returns no value: it panics with a division
\* by zero, whatever coinbase_diff is.
C39_ZeroGasUsedPanics ==
    /\ (IsSome(simulated)
        /\ GasUsedJson \in {JsonString(<< "0", "x" >>), JsonNumber(0)}
        /\ deserialize_u256(Simulated.json["coinbaseDiff"]).ok) =>
            Simulated.ok /\ Simulated.gas_used = 0
    /\ (IsSome(price) /\ Simulated.gas_used = 0) => Price = DivisionByZero

C39_Witness ==
    /\ IsSome(price)
    /\ Simulated.type = "SimulatedTransaction"
    /\ GasUsedJson = JsonString(<< "0", "x" >>)
    /\ Simulated.coinbase_diff = MaxCoinbaseDiff
    /\ Price.panicked

(***************************************************************************)
(* Claims about concurrent callers of one relay client                     *)
(***************************************************************************)
\* The calls made on client c.
CallsOn(c) == {k \in DOMAIN requests : requests[k].relay = c}

\* C32: whatever the overlap of the calls of request made on one Relay, no two
\* of them are given the same request id, and once every call made on the
\* Relay has returned its counter equals the number of calls made on it.
C32_ConcurrentIdsDistinct ==
    \A c \in DOMAIN clients :
        /\ \A j, k \in CallsOn(c) : j # k => requests[j].next_id # requests[k].next_id
        /\ (\A k \in CallsOn(c) : requests[k].pc = "done") =>
                clients[c].id = Cardinality(CallsOn(c))

(***************************************************************************)
(* Claims about the broadcast as a set of concurrent requests              *)
(***************************************************************************)
\* What the caller gets for a relay whose request ended with l.
OutcomeFor(bundle, l) ==
    IF Accepted(l)
    THEN [ok |-> TRUE, err |-> "-", cause |-> "-",
          pending |-> PendingBundle_new(IF l.body = "null" THEN None ELSE l.hash,
                                        Unwrap(bundle.target_block),
                                        transaction_hashes(bundle))]
    ELSE [ok |-> FALSE, err |-> "RelayError",
          cause |-> CASE l.status = "signer" -> "SignerError"
                      [] l.status \in {"transport", "5xx"} -> "RequestError"
                      [] l.status = "4xx" -> "ClientError"
                      [] l.body = "garbage" -> "ResponseSerdeJson"
                      [] OTHER -> "JsonRpcError",
          pending |-> NoPending]

\* C33: a broadcast of a bundle with a target block makes one request per
\* relay, in the order of the relays, each an eth_sendBundle to that relay's
\* URL carrying the bundle of the call, and advances each relay's counter by
\* one; while the call runs no request is added, dropped or changed and no
\* counter moves; the call has no result before every request has ended, with
\* success or failure; and in the list it returns the i-th entry is what the
\* i-th relay's own ending gives, whatever the order the requests ended in.
C33_BroadcastRequests ==
    /\ [][Calls("bc_send_bundle") /\ IsSome(call'.bundle.target_block) =>
            /\ Len(reqs') = Len(relays)
            /\ DOMAIN relays' = DOMAIN relays
            /\ \A i \in DOMAIN relays :
                /\ reqs'[i].method = "eth_sendBundle"
                /\ reqs'[i].params = << call'.bundle >>
                /\ reqs'[i].url = relays[i].url
                /\ relays'[i].id = relays[i].id + 1
                /\ reqs'[i].id = relays'[i].id]_vars
    /\ [][call.kind = "bc_send_bundle" /\ call.st = "running" =>
            /\ relays' = relays
            /\ call'.bundle = call.bundle
            /\ Len(reqs') = Len(reqs)
            /\ \A i \in DOMAIN reqs :
                /\ reqs'[i].method = reqs[i].method
                /\ reqs'[i].params = reqs[i].params
                /\ reqs'[i].url = reqs[i].url
                /\ reqs'[i].id = reqs[i].id
                /\ reqs[i].pc = "done" => reqs'[i] = reqs[i]]_vars
    /\ [](call.kind = "bc_send_bundle" /\ call.st = "running" =>
            /\ result = NoResult
            /\ \E i \in DOMAIN reqs : reqs[i].pc # "done")
    /\ [](Returned("bc_send_bundle") /\ IsSome(call.bundle.target_block) =>
            /\ Len(reqs) = Len(relays)
            /\ \A i \in DOMAIN reqs : reqs[i].pc = "done" /\ reqs[i].resp.status # "-"
            /\ result = OkList([i \in DOMAIN reqs |->
                                    OutcomeFor(call.bundle, reqs[i].resp)]))

\* C33 witness: the second relay's request has ended, accepted, while the
\* first relay's is still being signed, and the call has not returned.
C33_Witness ==
    /\ call.kind = "bc_send_bundle"
    /\ call.st = "running"
    /\ Len(reqs) = 2
    /\ reqs[1].pc = "signing"
    /\ reqs[2].pc = "done"
    /\ Accepted(reqs[2].resp)
    /\ reqs[1].params = reqs[2].params
    /\ relays[1].id = 1 /\ relays[2].id = 1
    /\ result = NoResult

(***************************************************************************)
(* Claims about the pacing of the poller                                   *)
(***************************************************************************)
\* A step in which poll issues a fetch.
IssuesFetch == fut.st = "none" /\ fut'.st # "none"

\* A step in which poll takes a tick from the interval.
ConsumesTick == interval /\ ~interval'

\* C34: the poller starts waiting, with no fetch; it holds a fetch in no state
\* but GettingBlock; every step that issues a fetch is a step of the waiting
\* state that takes a tick from the interval, and a tick is taken by no other
\* step; and a retry outcome puts the poller back in the waiting state with no
\* fetch.  So each fetch has its own tick, and the fetches issued are never
\* more than the ticks taken.
C34_FetchAfterTick ==
    /\ [](ret = NotPolled => state = "PausedGettingBlock")
    /\ []((fut.st # "none") = (state = "GettingBlock"))
    /\ [][IssuesFetch =>
            /\ state = "PausedGettingBlock"
            /\ ConsumesTick
            /\ fut'.st = "created"]_vars
    /\ [][ConsumesTick => IssuesFetch]_vars
    /\ [][ConsumesFetch /\ IsRetry(fut.res) =>
            /\ state' = "PausedGettingBlock"
            /\ fut' = NoFut
            /\ interval' = interval]_vars
    /\ [][fut.st # "none" /\ fut'.st # "none" => fut'.num = fut.num]_vars

\* C34 witness: after one retry the interval ticked again and the second
\* fetch has been issued.
C34_Witness ==
    /\ retries = 1
    /\ state = "GettingBlock"
    /\ fut.st = "created"
    /\ ~interval
    /\ fetched = NoFetch
    /\ ret = Pending

(***************************************************************************)
(* Claims about the waking of the poller                                   *)
(***************************************************************************)
\* The interval holds the task's waker and has yet to tick.
IntervalWillWake == state = "PausedGettingBlock" /\ interval_waker /\ ~interval

\* The fetch in flight holds the task's waker and has yet to finish.
FetchWillWake == state = "GettingBlock" /\ fut_waker /\ fut.st = "inflight"

\* C35: when poll returns Pending it has woken the task itself or has left
\* the task's waker with the source it waits on, the interval in the waiting
\* state and the fetch in flight in GettingBlock; a poller that has not
\* completed is at all times either woken or due to be woken by that source;
\* and the tick and the end of the fetch it waits on wake it.
C35_NoLostWakeup ==
    /\ [][Poll /\ ret' = Pending =>
            \/ woken'
            \/ state' = "PausedGettingBlock" /\ interval_waker' /\ ~interval'
            \/ state' = "GettingBlock" /\ fut_waker' /\ fut'.st = "inflight"]_vars
    /\ [](state # "Completed" => woken \/ IntervalWillWake \/ FetchWillWake)
    /\ [][IntervalWillWake /\ interval' => woken']_vars
    /\ [][FetchWillWake /\ fut'.st = "done" => woken']_vars

\* C35 witness: after a retry the poller waited on the interval, whose tick
\* has woken it.
C35_Witness ==
    /\ retries = 1
    /\ state = "PausedGettingBlock"
    /\ interval
    /\ woken
    /\ ~interval_waker
    /\ ret = Pending
    /\ fut = NoFut

CountersKept ==
    /\ relay' = relay
    /\ relays' = relays
    /\ bc_simulation_relay' = bc_simulation_relay
    /\ simulation_relay' # simulation_relay =>
            /\ call' = call
            /\ IsSome(simulation_relay')
            /\ Unwrap(simulation_relay').id = 0

\* A step in which a request of the running call ends, in any way.
RequestEnds ==
    \E i \in DOMAIN reqs : reqs[i].pc # "done" /\ reqs'[i].pc = "done"

PendingTransactionOf(tx) == OkData([tx_hash |-> keccak256(tx)])

\* C38: once the latest block was obtained, with its number,
\* BroadcasterMiddleware::send_raw_transaction returns Ok with the pending
\* transaction of the raw transaction however the relays' requests ended, all
\* of them failed included; FlashbotsMiddleware::send_raw_transaction returns
\* it exactly when its one request succeeded and RelayError, with no pending
\* transaction, when it failed.
C38_RawSendErrors ==
    /\ (call.kind = "bc_send_raw_transaction" /\ call.st = "returned"
        /\ IsSome(call.latest)) =>
            result = PendingTransactionOf(call.tx)
    /\ (call.kind = "fb_send_raw_transaction" /\ call.st = "returned"
        /\ IsSome(call.latest)) =>
            /\ Len(reqs) = 1
            /\ reqs[1].out.ok => result = PendingTransactionOf(call.tx)
            /\ ~reqs[1].out.ok => result = Err("RelayError") /\ IsNone(result.data)
    /\ (IsRawSend(call.kind) /\ call.st = "returned" /\ IsNone(call.latest)) =>
            result = Err("MiddlewareError")

\* C38 witness: a broadcast of a raw transaction returned Ok although one
\* relay answered 400 and the signer failed the other's request.
C38_Witness ==
    /\ call.kind = "bc_send_raw_transaction"
    /\ call.st = "returned"
    /\ Len(reqs) = 2
    /\ reqs[1].resp.status = "4xx"
    /\ reqs[2].resp.status = "signer"
    /\ result.tag = "Ok"
    /\ IsSome(result.data)
====
